---- MODULE Spec2Model ----
(***************************************************************************)
(* Qsnap: the persistence flow of the App component (optimistic local      *)
(* cache, background sync with the GitHub contents API, debounced          *)
(* write-back) together with the Library mutations that drive it.          *)
(*                                                                         *)
(* The model follows src/unnamed/part_000 (the build with the              *)
(* localStorage cache).  src/index.tsx is the same flow without the cache: *)
(* it behaves as this model does when localStorage starts empty.           *)
(***************************************************************************)
EXTENDS Integers, Sequences, FiniteSets, TLC

(***************************************************************************)
(* Bounds of the model.                                                    *)
(***************************************************************************)
MaxCycles == 2      \* debounce callbacks that may run in one behaviour
MaxSubjects == 1    \* length of the Library
MaxNow == 2         \* last value of Date.now()
LineLen == 2        \* the store wraps base64 text after this many symbols
MaxLectures == 3    \* Lectures of one Subject
MaxQuestions == 3   \* Questions of one Lecture
MaxImages == 2      \* files of one upload
MaxRandom == 2      \* values drawn from Math.random() in one behaviour
PageHeight == 80    \* height of a page of the exported document, in mm
PageWidth == 60     \* its width

(***************************************************************************)
(* Optional values: null is the empty tuple, a present value a 1-tuple.    *)
(***************************************************************************)
Null == <<>>
Some(x) == <<x>>

(***************************************************************************)
(* Strings the user types are sequences of characters.                     *)
(***************************************************************************)
RECURSIVE TrimLeft(_)
TrimLeft(s) ==
  IF s # <<>> /\ Head(s) = "sp" THEN TrimLeft(Tail(s)) ELSE s

RECURSIVE TrimRight(_)
TrimRight(s) ==
  IF s # <<>> /\ s[Len(s)] = "sp" THEN TrimRight(SubSeq(s, 1, Len(s) - 1)) ELSE s

Trim(s) == TrimRight(TrimLeft(s))

NameInputs == {<<"a">>, <<"sp">>, <<"sp", "a">>}

(***************************************************************************)
(* Library values.                                                         *)
(***************************************************************************)
NewSubject(t, name) == [id |-> <<"sub", t>>, name |-> name, lectures |-> <<>>]

\* Libraries a previous session may have left in the cache or in the store.
OldSubject == NewSubject(0, <<"a">>)
InitLibs == {<<>>, <<OldSubject>>}

(***************************************************************************)
(* JSON text is a sequence of tokens; objects are leaves.                  *)
(***************************************************************************)
LB == <<"[", <<>>>>
RB == <<"]", <<>>>>
COMMA == <<",", <<>>>>
WS == <<"ws", <<>>>>
Obj(v) == <<"obj", <<v>>>>

RECURSIVE StringifyItems(_, _)
StringifyItems(lib, pretty) ==
  IF lib = <<>> THEN <<>>
  ELSE (IF pretty THEN <<WS>> ELSE <<>>)
       \o <<Obj(Head(lib))>>
       \o (IF Len(lib) > 1 THEN <<COMMA>> ELSE IF pretty THEN <<WS>> ELSE <<>>)
       \o StringifyItems(Tail(lib), pretty)

\* JSON.stringify(lib) and JSON.stringify(lib, null, 2)
Stringify(lib, pretty) == <<LB>> \o StringifyItems(lib, pretty) \o <<RB>>

IsWs(tok) == tok[1] = "ws"
NotWs(tok) == ~IsWs(tok)

RECURSIVE ParseItems(_)
\* the items of an array body "obj , obj , obj"; ok is FALSE when malformed
ParseItems(toks) ==
  IF toks = <<>> THEN [ok |-> TRUE, value |-> <<>>]
  ELSE IF Head(toks)[1] # "obj" THEN [ok |-> FALSE, value |-> <<>>]
  ELSE IF Len(toks) = 1 THEN [ok |-> TRUE, value |-> <<Head(toks)[2][1]>>]
  ELSE IF toks[2] # COMMA \/ Len(toks) = 2 THEN [ok |-> FALSE, value |-> <<>>]
  ELSE LET rest == ParseItems(SubSeq(toks, 3, Len(toks)))
       IN [ok |-> rest.ok,
           value |-> IF rest.ok THEN <<Head(toks)[2][1]>> \o rest.value ELSE <<>>]

\* JSON.parse followed by Array.isArray: ok = it parsed, isArray, value
JsonParse(text) ==
  LET toks == SelectSeq(text, NotWs)
  IN IF toks = <<>> THEN [ok |-> FALSE, isArray |-> FALSE, value |-> <<>>]
     ELSE IF Len(toks) = 1 /\ toks[1][1] = "obj"
          THEN [ok |-> TRUE, isArray |-> FALSE, value |-> <<>>]
     ELSE IF Len(toks) >= 2 /\ toks[1] = LB /\ toks[Len(toks)] = RB
          THEN LET body == ParseItems(SubSeq(toks, 2, Len(toks) - 1))
               IN [ok |-> body.ok, isArray |-> body.ok, value |-> body.value]
     ELSE [ok |-> FALSE, isArray |-> FALSE, value |-> <<>>]

(***************************************************************************)
(* base64: btoa maps every symbol to a base64 symbol, the store answers    *)
(* with the base64 text wrapped in lines, atob ignores the line breaks.    *)
(***************************************************************************)
NL == <<"nl", <<>>>>
Btoa(text) == [i \in 1..Len(text) |-> <<"b64", <<text[i]>>>>]

IsSpace(sym) == sym[1] = "nl"
NotSpace(sym) == ~IsSpace(sym)
\* s.replace(/\s/g, '')
StripWs(s) == SelectSeq(s, NotSpace)

Atob(s) == LET t == StripWs(s) IN [i \in 1..Len(t) |-> t[i][2][1]]

RECURSIVE Wrap(_)
Wrap(s) ==
  IF Len(s) <= LineLen THEN s \o <<NL>>
  ELSE SubSeq(s, 1, LineLen) \o <<NL>> \o Wrap(SubSeq(s, LineLen + 1, Len(s)))

\* the blob sha of a stored text
Sha(text) == [hash |-> text]

(***************************************************************************)
(* State of the App component, of localStorage and of the remote store.    *)
(***************************************************************************)
VARIABLES
  subjects,                \* useState<Subject[]>
  pat,                     \* useState<string | null>: the bearer credential
  isDataLoading,           \* useState<boolean>
  saveStatus,              \* 'idle' | 'saving' | 'saved' | 'error'
  error,                   \* the message renderContent shows instead of the views
  isInitialLoad,           \* useRef(true): the initial-load latch
  debounceTimer,           \* the pending debounce timeout and the Library its closure holds
  latchTimer,              \* the 500 ms timeout that releases the latch is pending
  localStorage,            \* the entries qsnap_subjects and qsnap_sha
  remote,                  \* the file in the store: Null or its text
  loadPc,                  \* position of the load effect / syncWithRemote
  localDataLoaded,         \* local of the load effect
  loadResp,                \* answer of the store to the load's GET, in flight
  cycles,                  \* the debounce callbacks started so far, each with its position
  isDeleteModalOpen,
  itemToDelete,
  deleteConfirmationError,
  now,                     \* Date.now()
  images,                  \* useState<File[]>: the files chosen for extraction
  imageUrls,               \* their object URLs
  isLoading,               \* an analyzeImages call is running
  extractionResults,       \* useState<ExtractionResult[]>: the staging area
  selectedStagedIds,       \* useState<Set<string>>
  selectedSubjectId,       \* target Subject of the staging selects
  selectedLectureId,       \* target Lecture of the staging selects
  batch,                   \* the running analyzeImages call: its closure and its promises
  rng,                     \* values Math.random() has returned so far
  isPdfModalOpen,
  selectedPdfLectures,     \* useState<Set<string>>
  pdfTextSize,
  pdfShowAnswers,
  savedPdf                 \* the document handed to doc.save, Null before any export

syncVars == <<pat, isDataLoading, saveStatus, error, isInitialLoad, debounceTimer,
              latchTimer, localStorage, remote, loadPc, localDataLoaded, loadResp, cycles>>
libVars == <<subjects, isDeleteModalOpen, itemToDelete, deleteConfirmationError, now>>
stageVars == <<images, imageUrls, isLoading, extractionResults, selectedStagedIds,
               selectedSubjectId, selectedLectureId, batch, rng>>
pdfVars == <<isPdfModalOpen, selectedPdfLectures, pdfTextSize, pdfShowAnswers, savedPdf>>
uiVars == <<stageVars, pdfVars>>
vars == <<syncVars, libVars, uiVars>>

NoPat == "null"
FetchedPat == "pat"

NoError == "null"
LoadFailedMsg == "Failed to load library"
SaveFailedMsg == "Failed to save data to GitHub"

NoTimer == [armed |-> FALSE, snap |-> <<>>]
NoItems == [subjects |-> Null, sha |-> Null]
NoResp == [status |-> "none", content |-> <<>>, sha |-> Null]
NoPutResp == [status |-> "none", sha |-> Null]

\* What a GET of the data file answers when the request reaches the store.
StoreGet ==
  IF remote = Null THEN [status |-> "notfound", content |-> <<>>, sha |-> Null]
  ELSE [status |-> "ok", content |-> Wrap(Btoa(remote[1])), sha |-> Some(Sha(remote[1]))]

\* The store accepts a PUT only when the sha sent names the file's current blob.
StoreAccepts(sha) ==
  IF remote = Null THEN sha = Null ELSE sha = Some(Sha(remote[1]))

\* The views of renderContent (and so their forms and buttons) are on screen.
ViewsVisible == ~isDataLoading /\ error = NoError

(***************************************************************************)
(* The save effect, run after every render in which subjects, pat or       *)
(* isDataLoading changed.  s, p, l are the values of that render.          *)
(***************************************************************************)
SaveEffectSkipsNoLatch(latch, p, l) == p = NoPat \/ l

SaveEffectSkips(latch, p, l) == latch \/ p = NoPat \/ l

ArmDebounceStale(s) == [armed |-> TRUE, snap |-> subjects]

ArmDebounce(s) == [armed |-> TRUE, snap |-> s]

SaveEffect(s, p, l) ==
  IF SaveEffectSkips(isInitialLoad, p, l)
  THEN /\ debounceTimer' = NoTimer
       /\ saveStatus' = saveStatus
  ELSE /\ debounceTimer' = ArmDebounce(s)
       /\ saveStatus' = "saving"

(***************************************************************************)
(* The load effect and syncWithRemote.                                     *)
(***************************************************************************)
\* Mount: read the cache, show it, start syncWithRemote up to its first await.
Mount ==
  /\ loadPc = "unmounted"
  /\ LET localData == localStorage.subjects
         parsed == IF localData = Null
                   THEN [ok |-> TRUE, isArray |-> FALSE, value |-> <<>>]
                   ELSE JsonParse(localData[1])
         loaded == localData # Null /\ parsed.ok /\ parsed.isArray
         s == IF loaded THEN parsed.value ELSE subjects
     IN /\ subjects' = s
        /\ localDataLoaded' = loaded
        /\ localStorage' = IF localData # Null /\ ~parsed.ok THEN NoItems ELSE localStorage
        /\ isDataLoading' = ~loaded
        /\ SaveEffect(s, pat, ~loaded)
  /\ error' = NoError
  /\ loadPc' = "fetchPat"
  /\ UNCHANGED <<pat, isInitialLoad, latchTimer, remote, loadResp, cycles,
                 isDeleteModalOpen, itemToDelete, deleteConfirmationError, now, uiVars>>

\* catch of syncWithRemote
LoadCatchError(loaded, err) == IF ~loaded THEN LoadFailedMsg ELSE err

LoadCatchSubjectsAlways(loaded, s) == <<>>

LoadCatchSubjects(loaded, s) == IF ~loaded THEN <<>> ELSE s

\* catch and finally of syncWithRemote
LoadFails ==
  /\ error' = LoadCatchError(localDataLoaded, error)
  /\ subjects' = LoadCatchSubjects(localDataLoaded, subjects)
  /\ isDataLoading' = FALSE
  /\ latchTimer' = TRUE
  /\ loadPc' = "done"
  /\ IF localDataLoaded /\ isDataLoading = FALSE
     THEN UNCHANGED <<debounceTimer, saveStatus>>
     ELSE SaveEffect(subjects', pat, FALSE)

\* The token endpoint answers; ok = 2xx with a pat field.
PatResponse(ok) ==
  /\ loadPc = "fetchPat"
  /\ IF ok
     THEN /\ pat' = FetchedPat
          /\ loadPc' = "getFile"
          /\ SaveEffect(subjects, FetchedPat, isDataLoading)
          /\ UNCHANGED <<subjects, error, isDataLoading, latchTimer>>
     ELSE /\ LoadFails
          /\ pat' = pat
  /\ UNCHANGED <<isInitialLoad, localStorage, remote, localDataLoaded, loadResp, cycles,
                 isDeleteModalOpen, itemToDelete, deleteConfirmationError, now, uiVars>>

\* The store answers the GET of getGithubFile; fail = network or non-2xx other than 404.
LoadGetReplied(fail) ==
  /\ loadPc = "getFile"
  /\ loadResp' = IF fail THEN [status |-> "fail", content |-> <<>>, sha |-> Null] ELSE StoreGet
  /\ loadPc' = "fileReplied"
  /\ UNCHANGED <<pat, isDataLoading, saveStatus, error, isInitialLoad, debounceTimer,
                 latchTimer, localStorage, remote, localDataLoaded, cycles, libVars, uiVars>>

\* localStorage after the remote content replaced the Library
LoadCacheKeepSha(parsed, sha) ==
  [subjects |-> Some(Stringify(parsed, FALSE)), sha |-> localStorage.sha]

LoadCache(parsed, sha) == [subjects |-> Some(Stringify(parsed, FALSE)), sha |-> sha]

\* localStorage after the remote file was found missing
LoadNotFoundCacheKeepSha(items) == [subjects |-> Null, sha |-> items.sha]

LoadNotFoundCache(items) == NoItems

\* syncWithRemote continues after the await of getGithubFile.
LoadGotFile ==
  /\ loadPc = "fileReplied"
  /\ LET fileData == loadResp
         localSha == localStorage.sha
         parsedData == JsonParse(Atob(fileData.content))
     IN CASE fileData.status = "fail" ->
               /\ LoadFails
               /\ UNCHANGED localStorage
          [] fileData.status = "ok" /\ fileData.sha = localSha ->
               /\ isDataLoading' = FALSE
               /\ latchTimer' = TRUE
               /\ loadPc' = "done"
               /\ IF isDataLoading
                  THEN SaveEffect(subjects, pat, FALSE)
                  ELSE UNCHANGED <<debounceTimer, saveStatus>>
               /\ UNCHANGED <<subjects, error, localStorage>>
          [] fileData.status = "ok" /\ fileData.sha # localSha /\ parsedData.isArray ->
               /\ subjects' = parsedData.value
               /\ localStorage' = LoadCache(parsedData.value, fileData.sha)
               /\ isDataLoading' = FALSE
               /\ latchTimer' = TRUE
               /\ loadPc' = "done"
               /\ SaveEffect(parsedData.value, pat, FALSE)
               /\ UNCHANGED error
          [] fileData.status = "ok" /\ fileData.sha # localSha /\ ~parsedData.isArray ->
               /\ LoadFails
               /\ UNCHANGED localStorage
          [] fileData.status = "notfound" ->
               /\ IF localDataLoaded
                  THEN /\ subjects' = <<>>
                       /\ localStorage' = LoadNotFoundCache(localStorage)
                       /\ SaveEffect(<<>>, pat, FALSE)
                  ELSE /\ UNCHANGED <<subjects, localStorage>>
                       /\ IF isDataLoading
                          THEN SaveEffect(subjects, pat, FALSE)
                          ELSE UNCHANGED <<debounceTimer, saveStatus>>
               /\ isDataLoading' = FALSE
               /\ latchTimer' = TRUE
               /\ loadPc' = "done"
               /\ UNCHANGED error
  /\ UNCHANGED <<pat, isInitialLoad, remote, localDataLoaded, loadResp, cycles,
                 isDeleteModalOpen, itemToDelete, deleteConfirmationError, now, uiVars>>

\* setTimeout(() => { isInitialLoad.current = false; }, 500)
LatchRelease ==
  /\ latchTimer
  /\ latchTimer' = FALSE
  /\ isInitialLoad' = FALSE
  /\ UNCHANGED <<pat, isDataLoading, saveStatus, error, debounceTimer, localStorage,
                 remote, loadPc, localDataLoaded, loadResp, cycles, libVars, uiVars>>

(***************************************************************************)
(* The debounce callback: one read-then-write cycle per fired timer.       *)
(***************************************************************************)
NewCycle(snap) ==
  [snap |-> snap, pc |-> "getSent", get |-> NoResp, putContent |-> <<>>,
   putSha |-> Null, put |-> NoPutResp, thrown |-> "none", outcome |-> "none"]

\* The callback of cycle c returned: its locals are gone, what is kept is how it ended.
Finished(c, outcome, thrown) ==
  [NewCycle(<<>>) EXCEPT !.pc = "done", !.outcome = outcome, !.thrown = thrown,
                         !.put = [status |-> c.put.status, sha |-> Null]]

\* a timeout that stays pending after it has fired
TimerFireKeeps ==
  /\ debounceTimer.armed
  /\ Len(cycles) < MaxCycles
  /\ cycles' = Append(cycles, NewCycle(debounceTimer.snap))
  /\ UNCHANGED <<pat, isDataLoading, saveStatus, error, isInitialLoad, debounceTimer, latchTimer,
                 localStorage, remote, loadPc, localDataLoaded, loadResp, libVars, uiVars>>

\* the 2000 ms timeout fires: the callback runs up to await getGithubFile(pat)
TimerFire ==
  /\ debounceTimer.armed
  /\ Len(cycles) < MaxCycles
  /\ cycles' = Append(cycles, NewCycle(debounceTimer.snap))
  /\ debounceTimer' = NoTimer
  /\ UNCHANGED <<pat, isDataLoading, saveStatus, error, isInitialLoad, latchTimer,
                 localStorage, remote, loadPc, localDataLoaded, loadResp, libVars, uiVars>>

\* The store answers the GET of cycle i.
CycleGetReplied(i, fail) ==
  /\ cycles[i].pc = "getSent"
  /\ cycles' = [cycles EXCEPT ![i].pc = "getReplied",
                              ![i].get = IF fail
                                         THEN [status |-> "fail", content |-> <<>>, sha |-> Null]
                                         ELSE StoreGet]
  /\ UNCHANGED <<pat, isDataLoading, saveStatus, error, isInitialLoad, debounceTimer,
                 latchTimer, localStorage, remote, loadPc, localDataLoaded, loadResp, libVars, uiVars>>

\* fileData.content.replace(/\s/g, '') === encodedContent.replace(/\s/g, '')
SameContentExact(remoteContent, encodedContent) == remoteContent = encodedContent

SameContent(remoteContent, encodedContent) ==
  StripWs(remoteContent) = StripWs(encodedContent)

\* what getGithubFile and saveGithubFile throw for an answer of the given status
Thrown(status) == IF status \in {"fail", "conflict"} THEN "Error" ELSE "none"

\* the sha of the cache in place of the one just read
ExpectedShaCached(fileData) == localStorage.sha

\* fileData?.sha || null, the third argument of saveGithubFile
ExpectedSha(fileData) == IF fileData.status = "ok" THEN fileData.sha ELSE Null

\* Cycle i continues after await getGithubFile: compare, then finish or send the PUT.
CycleGotFile(i) ==
  /\ cycles[i].pc = "getReplied"
  /\ LET c == cycles[i]
         fileData == c.get
         contentToSave == Stringify(c.snap, TRUE)
         encodedContent == Btoa(contentToSave)
     IN IF fileData.status = "fail"
        THEN /\ cycles' = [cycles EXCEPT ![i] = Finished(c, "error", Thrown("fail"))]
             /\ saveStatus' = "error"
             /\ error' = SaveFailedMsg
        ELSE IF fileData.status = "ok" /\ SameContent(fileData.content, encodedContent)
        THEN /\ cycles' = [cycles EXCEPT ![i] = Finished(c, "saved", "none")]
             /\ saveStatus' = "saved"
             /\ error' = error
        ELSE /\ cycles' = [cycles EXCEPT ![i].pc = "putSent",
                                         ![i].putContent = encodedContent,
                                         ![i].putSha = ExpectedSha(fileData)]
             /\ UNCHANGED <<saveStatus, error>>
  /\ UNCHANGED <<pat, isDataLoading, isInitialLoad, debounceTimer, latchTimer,
                 localStorage, remote, loadPc, localDataLoaded, loadResp, libVars, uiVars>>

\* The store answers the PUT of cycle i: a transport failure, a rejection of a
\* stale sha, or the new blob.
CyclePutReplied(i, fail) ==
  /\ cycles[i].pc = "putSent"
  /\ LET c == cycles[i]
         text == Atob(c.putContent)
     IN IF fail
        THEN /\ cycles' = [cycles EXCEPT ![i].pc = "putReplied",
                                         ![i].put = [status |-> "fail", sha |-> Null]]
             /\ remote' = remote
        ELSE IF StoreAccepts(c.putSha)
        THEN /\ cycles' = [cycles EXCEPT ![i].pc = "putReplied",
                                         ![i].put = [status |-> "ok", sha |-> Some(Sha(text))]]
             /\ remote' = Some(text)
        ELSE /\ cycles' = [cycles EXCEPT ![i].pc = "putReplied",
                                         ![i].put = [status |-> "conflict", sha |-> Null]]
             /\ remote' = remote
  /\ UNCHANGED <<pat, isDataLoading, saveStatus, error, isInitialLoad, debounceTimer,
                 latchTimer, localStorage, loadPc, localDataLoaded, loadResp, libVars, uiVars>>

\* a successful write that stores the content and leaves qsnap_sha as it was
SaveCacheKeepSha(contentToSave, newSha) ==
  [subjects |-> Some(contentToSave), sha |-> localStorage.sha]

\* localStorage after a successful write
SaveCache(contentToSave, newSha) ==
  [subjects |-> Some(contentToSave),
   sha |-> IF newSha # Null THEN newSha ELSE localStorage.sha]

\* Cycle i continues after await saveGithubFile.
CycleGotPut(i) ==
  /\ cycles[i].pc = "putReplied"
  /\ LET c == cycles[i]
         newFileData == c.put
     IN IF newFileData.status = "ok"
        THEN /\ localStorage' = SaveCache(Stringify(c.snap, TRUE), newFileData.sha)
             /\ cycles' = [cycles EXCEPT ![i] = Finished(c, "saved", "none")]
             /\ saveStatus' = "saved"
             /\ error' = error
        ELSE /\ cycles' = [cycles EXCEPT ![i] = Finished(c, "error", Thrown(newFileData.status))]
             /\ saveStatus' = "error"
             /\ error' = SaveFailedMsg
             /\ localStorage' = localStorage
  /\ UNCHANGED <<pat, isDataLoading, isInitialLoad, debounceTimer, latchTimer,
                 remote, loadPc, localDataLoaded, loadResp, libVars, uiVars>>

(***************************************************************************)
(* Library mutations.                                                      *)
(***************************************************************************)
syncKept == <<pat, isDataLoading, error, isInitialLoad, latchTimer, localStorage,
              remote, loadPc, localDataLoaded, loadResp, cycles>>

\* handleAddSubject with newSubjectName = name
AddSubject(name) ==
  /\ loadPc # "unmounted"
  /\ ViewsVisible
  /\ Len(subjects) < MaxSubjects
  /\ Trim(name) # <<>>
  /\ subjects' = Append(subjects, NewSubject(now, Trim(name)))
  /\ SaveEffect(subjects', pat, isDataLoading)
  /\ UNCHANGED <<syncKept, isDeleteModalOpen, itemToDelete, deleteConfirmationError, now, uiVars>>

\* handleInitiateDeleteSubject
InitiateDeleteSubject(id) ==
  /\ loadPc # "unmounted"
  /\ ViewsVisible
  /\ ~isDeleteModalOpen
  /\ itemToDelete' = Some([type |-> "subject", id |-> id])
  /\ isDeleteModalOpen' = TRUE
  /\ UNCHANGED <<syncVars, subjects, deleteConfirmationError, now, uiVars>>

DeleteSubjectFrom(s, id) == SelectSeq(s, LAMBDA sub : sub.id # id)

\* handleConfirmDelete for a Subject; typed = the confirmation text is "delete"
ConfirmDelete(typed) ==
  /\ isDeleteModalOpen
  /\ itemToDelete # Null
  /\ IF ~typed
     THEN /\ deleteConfirmationError' = TRUE
          /\ UNCHANGED <<subjects, debounceTimer, saveStatus, isDeleteModalOpen, itemToDelete>>
     ELSE /\ subjects' = DeleteSubjectFrom(subjects, itemToDelete[1].id)
          /\ SaveEffect(subjects', pat, isDataLoading)
          /\ isDeleteModalOpen' = FALSE
          /\ itemToDelete' = Null
          /\ deleteConfirmationError' = FALSE
  /\ UNCHANGED <<syncKept, now, uiVars>>

\* handleCancelDelete
CancelDelete ==
  /\ isDeleteModalOpen
  /\ isDeleteModalOpen' = FALSE
  /\ itemToDelete' = Null
  /\ deleteConfirmationError' = FALSE
  /\ UNCHANGED <<syncVars, subjects, now, uiVars>>

\* the clock advances
Tick ==
  /\ now < MaxNow
  /\ now' = now + 1
  /\ UNCHANGED <<syncVars, subjects, isDeleteModalOpen, itemToDelete, deleteConfirmationError,
                 uiVars>>

(***************************************************************************)
(* Lectures.                                                               *)
(***************************************************************************)
NewLecture(t, name) == [id |-> <<"lec", t>>, name |-> name, questions |-> <<>>]

\* '' in the selects of the staging area
NoId == <<>>

\* ids of a sequence of objects that carry one
Ids(seq) == {seq[i].id : i \in 1..Len(seq)}

\* every Lecture of the Library, in Library order
RECURSIVE AllLectures(_)
AllLectures(s) == IF s = <<>> THEN <<>> ELSE Head(s).lectures \o AllLectures(Tail(s))

\* every Question of the Library, in Library order
RECURSIVE AllQuestions(_)
AllQuestions(lecs) == IF lecs = <<>> THEN <<>> ELSE Head(lecs).questions \o AllQuestions(Tail(lecs))

\* prev.map(sub => (sub.id === subjectId ? { ...sub, lectures: [...sub.lectures, newLecture] } : sub))
AppendLecture(s, subjectId, newLecture) ==
  [i \in 1..Len(s) |->
     IF s[i].id = subjectId
     THEN [s[i] EXCEPT !.lectures = Append(s[i].lectures, newLecture)]
     ELSE s[i]]

\* handleAddLecture(e, subjectId) with newLectureNames[subjectId] = name
AddLecture(subjectId, name) ==
  /\ loadPc # "unmounted"
  /\ ViewsVisible
  /\ \E i \in 1..Len(subjects) :
       subjects[i].id = subjectId /\ Len(subjects[i].lectures) < MaxLectures
  /\ Trim(name) # <<>>
  /\ subjects' = AppendLecture(subjects, subjectId, NewLecture(now, Trim(name)))
  /\ SaveEffect(subjects', pat, isDataLoading)
  /\ UNCHANGED <<syncKept, isDeleteModalOpen, itemToDelete, deleteConfirmationError, now, uiVars>>

(***************************************************************************)
(* Renaming.  The dialogs hold the edited name; the actions are their      *)
(* submit handlers.                                                        *)
(***************************************************************************)
\* handleUpdateSubject with editingSubject.id = subjectId and managedSubjectName = name
HandleUpdateSubject(subjectId, name) ==
  /\ loadPc # "unmounted"
  /\ ~isDataLoading
  /\ Trim(name) # <<>>
  /\ subjects' = [i \in 1..Len(subjects) |->
                    IF subjects[i].id = subjectId
                    THEN [subjects[i] EXCEPT !.name = Trim(name)]
                    ELSE subjects[i]]
  /\ SaveEffect(subjects', pat, isDataLoading)
  /\ UNCHANGED <<syncKept, isDeleteModalOpen, itemToDelete, deleteConfirmationError, now, uiVars>>

\* handleSaveLecture with editingLecture = {id: lectureId, name, subjectId}
HandleSaveLecture(subjectId, lectureId, name) ==
  /\ loadPc # "unmounted"
  /\ ~isDataLoading
  /\ subjects' = [i \in 1..Len(subjects) |->
                    IF subjects[i].id = subjectId
                    THEN [subjects[i] EXCEPT
                            !.lectures = [k \in 1..Len(subjects[i].lectures) |->
                                            IF subjects[i].lectures[k].id = lectureId
                                            THEN [subjects[i].lectures[k] EXCEPT !.name = name]
                                            ELSE subjects[i].lectures[k]]]
                    ELSE subjects[i]]
  /\ SaveEffect(subjects', pat, isDataLoading)
  /\ UNCHANGED <<syncKept, isDeleteModalOpen, itemToDelete, deleteConfirmationError, now, uiVars>>

(***************************************************************************)
(* Drag and drop of Lectures.                                              *)
(***************************************************************************)
\* an id no Lecture carries: what a drag from elsewhere leaves in dataTransfer
AbsentId == <<"lec", -99>>

\* arr.findIndex(x => x.id === id): 0-based, -1 when there is none
RECURSIVE FindIndexFrom(_, _, _)
FindIndexFrom(seq, id, k) ==
  IF k > Len(seq) THEN -1
  ELSE IF seq[k].id = id THEN k - 1
  ELSE FindIndexFrom(seq, id, k + 1)

FindIndex(seq, id) == FindIndexFrom(seq, id, 1)

\* what is left of arr after arr.splice(index, 1)
SpliceOutKeep(arr, index) == arr

SpliceOut(arr, index) == SubSeq(arr, 1, index) \o SubSeq(arr, index + 2, Len(arr))

\* arr after arr.splice(index, 0, item)
SpliceIn(arr, index, item) ==
  LET at == IF index > Len(arr) THEN Len(arr) ELSE index
  IN SubSeq(arr, 1, at) \o <<item>> \o SubSeq(arr, at + 1, Len(arr))

\* JSON.parse(JSON.stringify(prevSubjects))
DeepCopy(prevSubjects) == JsonParse(Stringify(prevSubjects, FALSE)).value

\* the updater of handleDrop finds the Subject and both Lectures
DropApplies(prevSubjects, subjectId, draggedLectureId, droppedOnLectureId) ==
  LET si == FindIndex(prevSubjects, subjectId)
  IN /\ si # -1
     /\ FindIndex(prevSubjects[si + 1].lectures, draggedLectureId) # -1
     /\ FindIndex(prevSubjects[si + 1].lectures, droppedOnLectureId) # -1

\* the updater handleDrop passes to setSubjects
DropUpdater(prevSubjects, subjectId, draggedLectureId, droppedOnLectureId) ==
  LET newSubjects == DeepCopy(prevSubjects)
      si == FindIndex(newSubjects, subjectId)
  IN IF si = -1 THEN prevSubjects
     ELSE LET lectures == newSubjects[si + 1].lectures
              draggedIndex == FindIndex(lectures, draggedLectureId)
              targetIndex == FindIndex(lectures, droppedOnLectureId)
          IN IF draggedIndex = -1 \/ targetIndex = -1 THEN prevSubjects
             ELSE [newSubjects EXCEPT
                     ![si + 1].lectures =
                        SpliceIn(SpliceOut(lectures, draggedIndex), targetIndex,
                                 lectures[draggedIndex + 1])]

\* handleDrop(e, subjectId, droppedOnLectureId), dataTransfer holding draggedLectureId
HandleDrop(subjectId, draggedLectureId, droppedOnLectureId) ==
  /\ loadPc # "unmounted"
  /\ ViewsVisible
  /\ IF draggedLectureId = NoId \/ draggedLectureId = droppedOnLectureId
     THEN UNCHANGED <<subjects, debounceTimer, saveStatus>>
     ELSE /\ subjects' = DropUpdater(subjects, subjectId, draggedLectureId, droppedOnLectureId)
          /\ IF DropApplies(subjects, subjectId, draggedLectureId, droppedOnLectureId)
             THEN SaveEffect(subjects', pat, isDataLoading)
             ELSE UNCHANGED <<debounceTimer, saveStatus>>
  /\ UNCHANGED <<syncKept, isDeleteModalOpen, itemToDelete, deleteConfirmationError, now, uiVars>>

(***************************************************************************)
(* Extraction: what analyzeImages makes of the answers of the service.     *)
(***************************************************************************)
IsAlnum(c) == c \notin {"sp", ".", ")"}

RECURSIVE AlnumRun(_)
\* length of the longest prefix matching [a-zA-Z0-9]*
AlnumRun(str) ==
  IF str # <<>> /\ IsAlnum(Head(str)) THEN 1 + AlnumRun(Tail(str)) ELSE 0

\* String(opt ?? '').replace(/^\s*[a-zA-Z0-9]+[.)]\s*/, '').trim()
StripLabel(opt) ==
  LET t == TrimLeft(opt)
      n == AlnumRun(t)
      replaced == IF n >= 1 /\ Len(t) > n /\ t[n + 1] \in {".", ")"}
                  THEN TrimLeft(SubSeq(t, n + 2, Len(t)))
                  ELSE opt
  IN Trim(replaced)

\* q.f || ''
OrEmpty(q, f) == IF f \in DOMAIN q THEN q[f] ELSE <<>>

\* Array.isArray(q.options) ? q.options : []
OptionsOf(q) == IF "options" \in DOMAIN q THEN q.options ELSE <<>>

\* the callback of parsedResponse.map: a Question, or Null for an unknown type
ToQuestion(q, t, index, qIndex) ==
  IF q.type = "mcq"
  THEN Some([type |-> "mcq",
             question |-> OrEmpty(q, "question"),
             options |-> [k \in 1..Len(OptionsOf(q)) |-> StripLabel(OptionsOf(q)[k])],
             id |-> <<"ext", t, index, qIndex>>,
             correctAnswer |-> Null])
  ELSE IF q.type = "short_answer"
  THEN Some([type |-> "short_answer",
             question |-> OrEmpty(q, "question"),
             answer |-> OrEmpty(q, "answer"),
             id |-> <<"ext", t, index, qIndex>>])
  ELSE Null

\* parsedResponse.map(...).filter(q => q !== null)
QuestionsWithIds(parsedResponse, t, index) ==
  LET mapped == [k \in 1..Len(parsedResponse) |-> ToQuestion(parsedResponse[k], t, index, k - 1)]
      kept == SelectSeq(mapped, LAMBDA m : m # Null)
  IN [k \in 1..Len(kept) |-> kept[k][1]]

ExtractionFailed(index) == Some(<<"Failed to extract questions from image", index + 1>>)

\* What the async callback of images.map returns for image index (0-based), the
\* service having answered reply at time t.  A reply that failed makes
\* generateContent throw; a text that is not JSON makes JSON.parse throw.
ImageResult(urls, index, reply, t) ==
  LET parsedResponse == JsonParse(reply.text)
  IN IF reply.status = "fail" \/ ~parsedResponse.ok
     THEN [imageUrl |-> urls[index + 1], questions |-> <<>>, error |-> ExtractionFailed(index)]
     ELSE IF parsedResponse.isArray
     THEN [imageUrl |-> urls[index + 1],
           questions |-> QuestionsWithIds(parsedResponse.value, t, index),
           error |-> Null]
     ELSE [imageUrl |-> urls[index + 1], questions |-> <<>>, error |-> Null]

\* objects the service may put into its answer
RawMcq == [type |-> "mcq", question |-> <<"q">>,
           options |-> << <<"a", ".", "sp", "x">>, <<"y">> >>]
RawShort == [type |-> "short_answer", question |-> <<"q">>, answer |-> <<"y">>]

\* what the service may answer for one image: a failed call, or a text that is
\* an array of two questions, an array with an unknown type and an mcq without
\* options, an object, or a text cut short
Replies ==
  LET RawMcqNoOptions == [type |-> "mcq", question |-> <<"q">>]
      RawOther == [type |-> "essay", question |-> <<"q">>]
      TextTwoQuestions == <<LB, Obj(RawMcq), COMMA, Obj(RawShort), RB>>
      TextNoOptions == <<LB, Obj(RawOther), COMMA, Obj(RawMcqNoOptions), RB>>
      TextNotArray == <<Obj(RawShort)>>
      TextMalformed == <<LB, Obj(RawMcq)>>
  IN {[status |-> "fail", text |-> <<>>]} \cup
     {[status |-> "ok", text |-> x] :
        x \in {TextTwoQuestions, TextNoOptions, TextNotArray, TextMalformed}}

(***************************************************************************)
(* The staging area.                                                       *)
(***************************************************************************)
\* what the user may pick in the file dialog
FileInputs == {files \in {<<"f1">>, <<"f2", "f1">>} : Len(files) <= MaxImages}

\* URL.createObjectURL(file)
CreateObjectURL(file) == <<"blob", file>>

NoBatch == [active |-> FALSE, imageUrls |-> <<>>, settled |-> <<>>, order |-> <<>>]

\* the useState defaults of the staging area
StageIdle ==
  /\ images = <<>>
  /\ imageUrls = <<>>
  /\ isLoading = FALSE
  /\ extractionResults = <<>>
  /\ selectedStagedIds = {}
  /\ selectedSubjectId = NoId
  /\ selectedLectureId = NoId
  /\ batch = NoBatch
  /\ rng = 0

\* handleImagesChange with e.target.files = files
HandleImagesChange(files) ==
  /\ loadPc # "unmounted"
  /\ ViewsVisible
  /\ IF Len(files) > 0
     THEN /\ images' = files
          /\ imageUrls' = [i \in 1..Len(files) |-> CreateObjectURL(files[i])]
          /\ extractionResults' = <<>>
          /\ selectedStagedIds' = {}
          /\ error' = NoError
     ELSE UNCHANGED <<images, imageUrls, extractionResults, selectedStagedIds, error>>
  /\ UNCHANGED <<pat, isDataLoading, saveStatus, isInitialLoad, debounceTimer, latchTimer,
                 localStorage, remote, loadPc, localDataLoaded, loadResp, cycles, libVars,
                 isLoading, selectedSubjectId, selectedLectureId, batch, rng, pdfVars>>

\* handleClearImages; its button is shown while images are chosen
HandleClearImages ==
  /\ loadPc # "unmounted"
  /\ ViewsVisible
  /\ Len(images) > 0
  /\ images' = <<>>
  /\ imageUrls' = <<>>
  /\ extractionResults' = <<>>
  /\ selectedStagedIds' = {}
  /\ error' = NoError
  /\ UNCHANGED <<pat, isDataLoading, saveStatus, isInitialLoad, debounceTimer, latchTimer,
                 localStorage, remote, loadPc, localDataLoaded, loadResp, cycles, libVars,
                 isLoading, selectedSubjectId, selectedLectureId, batch, rng, pdfVars>>

\* analyzeImages up to Promise.all; its button is shown while images are chosen
\* and disabled while isLoading
AnalyzeImages ==
  /\ loadPc # "unmounted"
  /\ ViewsVisible
  /\ Len(images) > 0
  /\ ~isLoading
  /\ isLoading' = TRUE
  /\ extractionResults' = <<>>
  /\ selectedStagedIds' = {}
  /\ error' = NoError
  /\ batch' = [active |-> TRUE, imageUrls |-> imageUrls,
               settled |-> [i \in 1..Len(images) |-> Null], order |-> <<>>]
  /\ UNCHANGED <<pat, isDataLoading, saveStatus, isInitialLoad, debounceTimer, latchTimer,
                 localStorage, remote, loadPc, localDataLoaded, loadResp, cycles, libVars,
                 images, imageUrls, selectedSubjectId, selectedLectureId, rng, pdfVars>>

\* the array Promise.all resolves to
PromiseAllCompletionOrder(b) == [k \in 1..Len(b.order) |-> b.settled[b.order[k]][1]]

PromiseAll(b) == [i \in 1..Len(b.settled) |-> b.settled[i][1]]

\* The service answers the request of image i of the running call (or the
\* request fails); once every image has its result, analyzeImages continues
\* after the await.
ExtractionReplied(i, reply) ==
  /\ batch.active
  /\ i \in 1..Len(batch.settled)
  /\ batch.settled[i] = Null
  /\ LET b == [batch EXCEPT !.settled[i] = Some(ImageResult(batch.imageUrls, i - 1, reply, now)),
                            !.order = Append(batch.order, i)]
     IN IF \A k \in 1..Len(b.settled) : b.settled[k] # Null
        THEN /\ extractionResults' = PromiseAll(b)
             /\ isLoading' = FALSE
             /\ batch' = NoBatch
        ELSE /\ batch' = b
             /\ UNCHANGED <<extractionResults, isLoading>>
  /\ UNCHANGED <<syncVars, libVars, images, imageUrls, selectedStagedIds, selectedSubjectId,
                 selectedLectureId, rng, pdfVars>>

\* the results are on screen with their checkboxes
StagingShown == ViewsVisible /\ ~isLoading /\ Len(extractionResults) > 0

\* extractionResults.flatMap(r => r.questions)
StagedQuestions == AllQuestions(extractionResults)

hasStagedQuestions == \E i \in 1..Len(extractionResults) : Len(extractionResults[i].questions) > 0

\* handleToggleStagedQuestion
HandleToggleStagedQuestion(questionId) ==
  /\ StagingShown
  /\ selectedStagedIds' = IF questionId \in selectedStagedIds
                          THEN selectedStagedIds \ {questionId}
                          ELSE selectedStagedIds \cup {questionId}
  /\ UNCHANGED <<syncVars, libVars, images, imageUrls, isLoading, extractionResults,
                 selectedSubjectId, selectedLectureId, batch, rng, pdfVars>>

\* handleSelectAllStaged; disabled while nothing is staged
HandleSelectAllStaged ==
  /\ StagingShown
  /\ Len(StagedQuestions) > 0
  /\ selectedStagedIds' = Ids(StagedQuestions)
  /\ UNCHANGED <<syncVars, libVars, images, imageUrls, isLoading, extractionResults,
                 selectedSubjectId, selectedLectureId, batch, rng, pdfVars>>

\* onChange of the Subject select of the staging area
SelectSubject(val) ==
  /\ ViewsVisible
  /\ hasStagedQuestions
  /\ val \in Ids(subjects)
  /\ selectedSubjectId' = val
  /\ selectedLectureId' = NoId
  /\ UNCHANGED <<syncVars, libVars, images, imageUrls, isLoading, extractionResults,
                 selectedStagedIds, batch, rng, pdfVars>>

\* the options of the Lecture select
lectureOptions ==
  IF selectedSubjectId = NoId \/ FindIndex(subjects, selectedSubjectId) = -1 THEN <<>>
  ELSE subjects[FindIndex(subjects, selectedSubjectId) + 1].lectures

\* onChange of the Lecture select of the staging area
SelectLecture(val) ==
  /\ ViewsVisible
  /\ hasStagedQuestions
  /\ selectedSubjectId # NoId
  /\ val \in Ids(lectureOptions)
  /\ selectedLectureId' = val
  /\ UNCHANGED <<syncVars, libVars, images, imageUrls, isLoading, extractionResults,
                 selectedStagedIds, selectedSubjectId, batch, rng, pdfVars>>

(***************************************************************************)
(* Commit of staged questions.                                             *)
(***************************************************************************)
\* extractionResults.flatMap(result => result.questions).filter(q => selectedStagedIds.has(q.id))
QuestionsToAdd == SelectSeq(StagedQuestions, LAMBDA q : q.id \in selectedStagedIds)

\* questionsToAdd.map(q => ({ ...q, id: `lib-${Date.now()}-${Math.random()}` })),
\* r values having been drawn from Math.random() before
NewQuestionsSameId(toAdd, t, r) ==
  [j \in 1..Len(toAdd) |-> [toAdd[j] EXCEPT !.id = <<"lib", t, r + 1>>]]

NewQuestions(toAdd, t, r) ==
  [j \in 1..Len(toAdd) |-> [toAdd[j] EXCEPT !.id = <<"lib", t, r + j>>]]

RECURSIVE CommitLectures(_, _, _, _, _)
\* subject.lectures.map(...) of the updater; rng counts the draws of Math.random()
CommitLectures(lectures, lectureId, toAdd, t, r) ==
  IF lectures = <<>> THEN [out |-> <<>>, rng |-> r]
  ELSE LET lecture == Head(lectures)
           hit == lecture.id = lectureId
           mapped == IF hit
                     THEN [lecture EXCEPT
                             !.questions = lecture.questions \o NewQuestions(toAdd, t, r)]
                     ELSE lecture
           rest == CommitLectures(Tail(lectures), lectureId, toAdd, t,
                                  IF hit THEN r + Len(toAdd) ELSE r)
       IN [out |-> <<mapped>> \o rest.out, rng |-> rest.rng]

RECURSIVE CommitSubjects(_, _, _, _, _, _)
\* prevSubjects.map(...) of the updater
CommitSubjects(prevSubjects, subjectId, lectureId, toAdd, t, r) ==
  IF prevSubjects = <<>> THEN [out |-> <<>>, rng |-> r]
  ELSE LET subject == Head(prevSubjects)
           lecs == IF subject.id = subjectId
                   THEN CommitLectures(subject.lectures, lectureId, toAdd, t, r)
                   ELSE [out |-> subject.lectures, rng |-> r]
           rest == CommitSubjects(Tail(prevSubjects), subjectId, lectureId, toAdd, t, lecs.rng)
       IN [out |-> <<[subject EXCEPT !.lectures = lecs.out]>> \o rest.out, rng |-> rest.rng]

\* what setExtractionResults leaves in the staging area
StagingAfterCommit(prevResults, selected) ==
  SelectSeq([i \in 1..Len(prevResults) |->
               [prevResults[i] EXCEPT
                  !.questions = SelectSeq(prevResults[i].questions,
                                          LAMBDA q : q.id \notin selected)]],
            LAMBDA result : Len(result.questions) > 0 \/ result.error # Null)

\* the Lectures the commit appends to stay within the bound of the model
CommitFits(toAdd) ==
  \A i \in 1..Len(subjects) : \A k \in 1..Len(subjects[i].lectures) :
    (subjects[i].id = selectedSubjectId /\ subjects[i].lectures[k].id = selectedLectureId)
      => Len(subjects[i].lectures[k].questions) + Len(toAdd) <= MaxQuestions

\* handleAddQuestionsToLecture; its button is shown while questions are staged and
\* disabled while a select is empty or nothing is selected
HandleAddQuestionsToLecture ==
  /\ loadPc # "unmounted"
  /\ ViewsVisible
  /\ hasStagedQuestions
  /\ selectedSubjectId # NoId
  /\ selectedLectureId # NoId
  /\ selectedStagedIds # {}
  /\ CommitFits(QuestionsToAdd)
  /\ CommitSubjects(subjects, selectedSubjectId, selectedLectureId, QuestionsToAdd, now, rng).rng
       <= MaxRandom
  /\ IF Len(QuestionsToAdd) = 0
     THEN UNCHANGED <<subjects, debounceTimer, saveStatus, extractionResults,
                      selectedStagedIds, rng>>
     ELSE LET done == CommitSubjects(subjects, selectedSubjectId, selectedLectureId,
                                     QuestionsToAdd, now, rng)
          IN /\ subjects' = done.out
             /\ rng' = done.rng
             /\ SaveEffect(subjects', pat, isDataLoading)
             /\ extractionResults' = StagingAfterCommit(extractionResults, selectedStagedIds)
             /\ selectedStagedIds' = {}
  /\ UNCHANGED <<syncKept, isDeleteModalOpen, itemToDelete, deleteConfirmationError, now,
                 images, imageUrls, isLoading, selectedSubjectId, selectedLectureId, batch,
                 pdfVars>>

(***************************************************************************)
(* The document jsPDF builds: its pages, each the sequence of what was     *)
(* drawn on it, and the page that drawing goes to.  Lengths are in mm,     *)
(* font sizes in tenths of a point.                                        *)
(***************************************************************************)
margin == 15

\* new jsPDF()
NewDoc == [pages |-> << <<>> >>, cur |-> 1, y |-> margin, toc |-> <<>>]

\* doc.addPage()
AddPage(d) == [d EXCEPT !.pages = Append(@, <<>>), !.cur = Len(d.pages) + 1]

\* doc.text and doc.rect on the current page
Draw(d, item) == [d EXCEPT !.pages[d.cur] = Append(@, item)]

\* doc.movePage(targetPage, beforePage)
MovePage(pages, targetPage, beforePage) ==
  LET others == SubSeq(pages, 1, targetPage - 1) \o SubSeq(pages, targetPage + 1, Len(pages))
  IN SubSeq(others, 1, beforePage - 1) \o <<pages[targetPage]>>
     \o SubSeq(others, beforePage, Len(others))

\* doc.getStringUnitWidth(str) * fontSize / doc.internal.scaleFactor
StringWidth(str, fontSize) == (Len(str) * fontSize) \div 57

RECURSIVE Chunks(_, _)
Chunks(text, n) ==
  IF Len(text) <= n THEN <<text>>
  ELSE <<SubSeq(text, 1, n)>> \o Chunks(SubSeq(text, n + 1, Len(text)), n)

\* doc.splitTextToSize(text, width) at the font size in force
SplitTextToSize(text, width, fontSize) ==
  LET fit == (width * 57) \div fontSize
  IN Chunks(text, IF fit < 1 THEN 1 ELSE fit)

\* doc.getTextDimensions(lines, { fontSize, lineHeightFactor: 1.25 }).h
TextHeight(lines, fontSize) == (fontSize * (5 * Len(lines) - 1)) \div 110

\* addWrappedText(text, x, y, options); the returned yPos is left in y
AddWrappedText(d, text, x, fontSize, highlight, call) ==
  LET lines == SplitTextToSize(text, PageWidth - x - margin, fontSize)
      textBlockHeight == TextHeight(lines, fontSize)
      broke == d.y + textBlockHeight > PageHeight - margin
      d1 == IF broke THEN AddPage(d) ELSE d
      yPos == IF broke THEN margin ELSE d.y
  IN [Draw(d1, [call |-> call, text |-> lines, x |-> x, y |-> yPos, highlight |-> highlight])
        EXCEPT !.y = yPos + textBlockHeight]

\* y = y + gap
Down(d, gap) == [d EXCEPT !.y = @ + gap]

\* if (y + fontSize * 1.5 > pageHeight - margin) { doc.addPage(); y = margin; }
BreakBefore(d, fontSize) ==
  IF 20 * d.y + 3 * fontSize > 20 * (PageHeight - margin)
  THEN [AddPage(d) EXCEPT !.y = margin]
  ELSE d

\* toc.unshift in place of toc.push
PushTocFront(d, title, level) ==
  [d EXCEPT !.toc = <<[title |-> title, page |-> Len(d.pages), level |-> level]>> \o @]

\* toc.push({ title, page: doc.getNumberOfPages(), level })
PushToc(d, title, level) ==
  [d EXCEPT !.toc = Append(@, [title |-> title, page |-> Len(d.pages), level |-> level])]

RECURSIVE String(_)
\* String(n) for a natural number
String(n) ==
  LET Digits == <<"0", "1", "2", "3", "4", "5", "6", "7", "8", "9">>
  IN IF n < 10 THEN <<Digits[n + 1]>> ELSE String(n \div 10) \o <<Digits[(n % 10) + 1]>>

\* String.fromCharCode(code) for the codes of lower-case letters
FromCharCode(code) == <<"a", "b", "c", "d", "e", "f">>[code - 96]

\* `${String.fromCharCode(97 + oIndex)}) ${opt}`
OptionText(oIndex, opt) == <<FromCharCode(97 + oIndex), ")", "sp">> \o opt

RECURSIVE PdfOptions(_, _, _, _, _, _)
\* q.options.forEach((opt, oIndex) => ...), from oIndex on
PdfOptions(d, q, oIndex, baseFontSize, showAnswers, n) ==
  IF oIndex >= n THEN d
  ELSE LET isCorrect == showAnswers /\ q.correctAnswer = Some(oIndex)
           d1 == Down(AddWrappedText(d, OptionText(oIndex, q.options[oIndex + 1]), margin + 5,
                                     baseFontSize, isCorrect, "option"), 2)
       IN PdfOptions(d1, q, oIndex + 1, baseFontSize, showAnswers, n)

\* `${qIndex + 1}. ${q.question}`
QuestionText(qIndex, q) == String(qIndex + 1) \o <<".", "sp">> \o q.question

AnswerText(q) == <<"A", "n", "s", "w", "e", "r", ":", "sp">> \o q.answer

RECURSIVE PdfQuestions(_, _, _, _, _)
\* lecture.questions.forEach((q, qIndex) => ...), from qIndex on
PdfQuestions(d, questions, qIndex, baseFontSize, showAnswers) ==
  IF qIndex >= Len(questions) THEN d
  ELSE LET q == questions[qIndex + 1]
           d1 == Down(AddWrappedText(d, QuestionText(qIndex, q), margin, baseFontSize,
                                     FALSE, "question"), 5)
           d2 == IF q.type = "mcq"
                 THEN PdfOptions(d1, q, 0, baseFontSize, showAnswers, Len(q.options))
                 ELSE IF showAnswers /\ q.answer # <<>>
                 THEN Down(AddWrappedText(d1, AnswerText(q), margin + 5, baseFontSize,
                                          TRUE, "answer"), 2)
                 ELSE d1
       IN PdfQuestions(Down(d2, 8), questions, qIndex + 1, baseFontSize, showAnswers)

RECURSIVE PdfLectures(_, _, _, _)
\* selectedLectures.forEach(lecture => ...)
PdfLectures(d, selectedLectures, baseFontSize, showAnswers) ==
  IF selectedLectures = <<>> THEN d
  ELSE LET lecture == Head(selectedLectures)
           lectureFontSize == (baseFontSize * 12) \div 10
           d1 == PushToc(BreakBefore(d, lectureFontSize), lecture.name, "lecture")
           d2 == Down(AddWrappedText(d1, lecture.name, margin, lectureFontSize, TRUE,
                                     "lecture"), 8)
           d3 == PdfQuestions(d2, lecture.questions, 0, baseFontSize, showAnswers)
       IN PdfLectures(d3, Tail(selectedLectures), baseFontSize, showAnswers)

RECURSIVE ContentPass(_, _, _, _, _)
\* PASS 1: subjects.forEach(subject => ...)
ContentPass(d, subs, selected, baseFontSize, showAnswers) ==
  IF subs = <<>> THEN d
  ELSE LET subject == Head(subs)
           selectedLectures == SelectSeq(subject.lectures, LAMBDA lec : lec.id \in selected)
           subjectFontSize == (baseFontSize * 14) \div 10
           d1 == PushToc(BreakBefore(d, subjectFontSize), subject.name, "subject")
           d2 == Down(AddWrappedText(d1, subject.name, margin, subjectFontSize, TRUE,
                                     "subject"), 10)
           d3 == IF selectedLectures = <<>> THEN d
                 ELSE PdfLectures(d2, selectedLectures, baseFontSize, showAnswers)
       IN ContentPass(d3, Tail(subs), selected, baseFontSize, showAnswers)

TocHeading ==
  <<"T", "a", "b", "l", "e", "sp", "o", "f", "sp", "C", "o", "n", "t", "e", "n", "t", "s">>

RECURSIVE TocRows(_, _, _)
\* toc.forEach(entry => ...)
TocRows(d, entries, baseFontSize) ==
  IF entries = <<>> THEN d
  ELSE LET entry == Head(entries)
           d1 == IF d.y > PageHeight - margin THEN [AddPage(d) EXCEPT !.y = margin] ELSE d
           pageNumStr == String(entry.page)
           x == IF entry.level = "lecture" THEN margin + 10 ELSE margin
           pageNumWidth == StringWidth(pageNumStr, baseFontSize)
           availableWidth == PageWidth - x - margin - pageNumWidth - 10
           truncatedTitle == SplitTextToSize(entry.title, availableWidth, baseFontSize)[1]
           d2 == Draw(d1, [call |-> "tocTitle", text |-> <<truncatedTitle>>, x |-> x,
                           y |-> d1.y, highlight |-> FALSE])
           d3 == Draw(d2, [call |-> "tocPage", text |-> <<pageNumStr>>,
                           x |-> PageWidth - margin, y |-> d1.y, highlight |-> FALSE])
       IN TocRows(Down(d3, (3 * baseFontSize) \div 20), Tail(entries), baseFontSize)

\* `Page ${i - 1} of ${totalContentPages}`
PageNumText(i, totalContentPages) ==
  <<"P", "a", "g", "e", "sp">> \o String(i - 1) \o <<"sp", "o", "f", "sp">>
    \o String(totalContentPages)

\* one footer per page, for the pages of the mutant below
FooterPagesAll(d, totalContentPages) == 1..Len(d.pages)

\* for (let i = 2; i <= totalContentPages + 1; i++)
FooterPages(d, totalContentPages) == 2..(totalContentPages + 1)

\* the loop that draws the footers
Footers(d, totalContentPages) ==
  [d EXCEPT !.pages =
     [i \in 1..Len(d.pages) |->
        IF i \in FooterPages(d, totalContentPages)
        THEN Append(d.pages[i],
                    [call |-> "footer", text |-> <<PageNumText(i, totalContentPages)>>,
                     x |-> PageWidth - margin, y |-> PageHeight - 10, highlight |-> TRUE])
        ELSE d.pages[i]]]

\* PASS 2: the table of contents goes to a new first page, then the footers
TocPass(d, baseFontSize) ==
  LET totalContentPages == Len(d.pages)
      added == AddPage(d)
      front == [added EXCEPT !.pages = MovePage(added.pages, totalContentPages + 1, 1),
                             !.cur = 1, !.y = margin]
      headed == Down(AddWrappedText(front, TocHeading, margin, (baseFontSize * 14) \div 10,
                                    FALSE, "tocHeading"), 15)
  IN Footers(TocRows(headed, d.toc, baseFontSize), totalContentPages)

\* the document generatePdf hands to doc.save
PdfDocument(subs, selected, textSize, showAnswers) ==
  TocPass(ContentPass(NewDoc, subs, selected, textSize * 10, showAnswers), textSize * 10).pages

(***************************************************************************)
(* The export modal.                                                       *)
(***************************************************************************)
TextSizeInputs == {12, 20}

\* the useState defaults of the export modal
PdfIdle ==
  /\ isPdfModalOpen = FALSE
  /\ selectedPdfLectures = {}
  /\ pdfTextSize = 12
  /\ pdfShowAnswers = TRUE
  /\ savedPdf = Null

\* handleExportClick; the button is disabled while the Library is empty
HandleExportClick ==
  /\ loadPc # "unmounted"
  /\ ~isPdfModalOpen
  /\ Len(subjects) > 0
  /\ isPdfModalOpen' = TRUE
  /\ UNCHANGED <<syncVars, libVars, stageVars, selectedPdfLectures, pdfTextSize,
                 pdfShowAnswers, savedPdf>>

\* onClick of Cancel
ClosePdfModal ==
  /\ isPdfModalOpen
  /\ isPdfModalOpen' = FALSE
  /\ UNCHANGED <<syncVars, libVars, stageVars, selectedPdfLectures, pdfTextSize,
                 pdfShowAnswers, savedPdf>>

\* onChange of the checkbox of a Lecture
TogglePdfLecture(lectureId) ==
  /\ isPdfModalOpen
  /\ lectureId \in Ids(AllLectures(subjects))
  /\ selectedPdfLectures' = IF lectureId \in selectedPdfLectures
                            THEN selectedPdfLectures \ {lectureId}
                            ELSE selectedPdfLectures \cup {lectureId}
  /\ UNCHANGED <<syncVars, libVars, stageVars, isPdfModalOpen, pdfTextSize, pdfShowAnswers,
                 savedPdf>>

\* selectAllForPdf
SelectAllForPdf ==
  /\ isPdfModalOpen
  /\ selectedPdfLectures' = Ids(AllLectures(subjects))
  /\ UNCHANGED <<syncVars, libVars, stageVars, isPdfModalOpen, pdfTextSize, pdfShowAnswers,
                 savedPdf>>

\* deselectAllForPdf
DeselectAllForPdf ==
  /\ isPdfModalOpen
  /\ selectedPdfLectures' = {}
  /\ UNCHANGED <<syncVars, libVars, stageVars, isPdfModalOpen, pdfTextSize, pdfShowAnswers,
                 savedPdf>>

\* onChange of the text size input and of the answers checkbox
SetPdfOptions(textSize, showAnswers) ==
  /\ isPdfModalOpen
  /\ pdfTextSize' = textSize
  /\ pdfShowAnswers' = showAnswers
  /\ UNCHANGED <<syncVars, libVars, stageVars, isPdfModalOpen, selectedPdfLectures, savedPdf>>

\* generatePdf; its button is disabled while nothing is selected
GeneratePdf ==
  /\ isPdfModalOpen
  /\ selectedPdfLectures # {}
  /\ savedPdf' = Some(PdfDocument(subjects, selectedPdfLectures, pdfTextSize, pdfShowAnswers))
  /\ isPdfModalOpen' = FALSE
  /\ UNCHANGED <<syncVars, libVars, stageVars, selectedPdfLectures, pdfTextSize, pdfShowAnswers>>

(***************************************************************************)
(* The specification.                                                      *)
(***************************************************************************)
InitCaches ==
  {NoItems} \cup
  {[subjects |-> Some(Stringify(lib, pretty)), sha |-> Some(Sha(Stringify(lib, TRUE)))] :
     lib \in InitLibs, pretty \in BOOLEAN}

NotArrayText == <<Obj(OldSubject)>>

InitRemotes == {Null} \cup {Some(Stringify(lib, TRUE)) : lib \in InitLibs} \cup {Some(NotArrayText)}

Init ==
  /\ subjects = <<>>
  /\ pat = NoPat
  /\ isDataLoading = FALSE
  /\ saveStatus = "idle"
  /\ error = NoError
  /\ isInitialLoad = TRUE
  /\ debounceTimer = NoTimer
  /\ latchTimer = FALSE
  /\ localStorage \in InitCaches
  /\ remote \in InitRemotes
  /\ loadPc = "unmounted"
  /\ localDataLoaded = FALSE
  /\ loadResp = NoResp
  /\ cycles = <<>>
  /\ isDeleteModalOpen = FALSE
  /\ itemToDelete = Null
  /\ deleteConfirmationError = FALSE
  /\ now = 1
  /\ StageIdle
  /\ PdfIdle

Next ==
  \/ Mount
  \/ \E ok \in BOOLEAN : PatResponse(ok)
  \/ \E fail \in BOOLEAN : LoadGetReplied(fail)
  \/ LoadGotFile
  \/ LatchRelease
  \/ TimerFire
  \/ \E i \in 1..Len(cycles), fail \in BOOLEAN : CycleGetReplied(i, fail)
  \/ \E i \in 1..Len(cycles) : CycleGotFile(i)
  \/ \E i \in 1..Len(cycles), fail \in BOOLEAN : CyclePutReplied(i, fail)
  \/ \E i \in 1..Len(cycles) : CycleGotPut(i)
  \/ \E name \in NameInputs : AddSubject(name)
  \/ \E i \in 1..Len(subjects) : InitiateDeleteSubject(subjects[i].id)
  \/ \E typed \in BOOLEAN : ConfirmDelete(typed)
  \/ CancelDelete
  \/ Tick

Spec == Init /\ [][Next]_vars

(***************************************************************************)
(* The Library Store on its own: a session whose load has ended and whose  *)
(* latch is released, the user adding and reordering.  Every change arms   *)
(* the debounce; the timer does not fire within this specification.        *)
(***************************************************************************)
OldQuestion(k) ==
  [type |-> "short_answer", question |-> <<"q">>, answer |-> <<"y">>, id |-> <<"lib", 0, k>>]

OldMcq(k) ==
  [type |-> "mcq", question |-> <<"q">>, options |-> << <<"x">>, <<"y">> >>,
   id |-> <<"lib", 0, k>>, correctAnswer |-> Some(1)]

\* a Lecture of an earlier session; Lectures -5 .. 0 are named "a" .. "f"
OldLecture(k, questions) ==
  [id |-> <<"lec", k>>, name |-> <<FromCharCode(k + 102)>>, questions |-> questions]

SubjectA ==
  [id |-> <<"sub", -1>>, name |-> <<"a">>,
   lectures |-> <<OldLecture(-3, <<OldQuestion(-3)>>), OldLecture(-2, <<>>),
                  OldLecture(-1, <<OldMcq(-1)>>)>>]

SubjectC ==
  [id |-> <<"sub", -2>>, name |-> <<"c">>,
   lectures |-> <<OldLecture(-5, <<OldQuestion(-5)>>), OldLecture(-4, <<>>)>>]

SubjectB == [id |-> <<"sub", 0>>, name |-> <<"b">>, lectures |-> <<OldLecture(0, <<>>)>>]

\* Libraries an earlier session left in the store
StoredLibs == {<<>>, <<SubjectA, SubjectB>>}

\* the state in which the load of the stored Library lib has ended
Loaded(lib) ==
  /\ subjects = lib
  /\ pat = FetchedPat
  /\ isDataLoading = FALSE
  /\ saveStatus = "idle"
  /\ error = NoError
  /\ isInitialLoad = FALSE
  /\ debounceTimer = NoTimer
  /\ latchTimer = FALSE
  /\ remote = IF lib = <<>> THEN Null ELSE Some(Stringify(lib, TRUE))
  /\ localStorage = IF lib = <<>> THEN NoItems
                    ELSE LoadCache(lib, Some(Sha(Stringify(lib, TRUE))))
  /\ loadPc = "done"
  /\ localDataLoaded = FALSE
  /\ loadResp = IF lib = <<>> THEN [status |-> "notfound", content |-> <<>>, sha |-> Null]
                ELSE [status |-> "ok", content |-> Wrap(Btoa(Stringify(lib, TRUE))),
                      sha |-> Some(Sha(Stringify(lib, TRUE)))]
  /\ cycles = <<>>
  /\ isDeleteModalOpen = FALSE
  /\ itemToDelete = Null
  /\ deleteConfirmationError = FALSE
  /\ now = 1

LibraryInit ==
  /\ \E lib \in StoredLibs : Loaded(lib)
  /\ StageIdle
  /\ PdfIdle

LibraryNext ==
  \/ \E name \in NameInputs : AddSubject(name)
  \/ \E i \in 1..Len(subjects), name \in NameInputs : AddLecture(subjects[i].id, name)
  \/ \E i \in 1..Len(subjects) :
       \E dragged \in Ids(AllLectures(subjects)) \cup {NoId, AbsentId},
          target \in Ids(subjects[i].lectures) \cup {AbsentId} :
         HandleDrop(subjects[i].id, dragged, target)
  \/ Tick

LibrarySpec == LibraryInit /\ [][LibraryNext]_vars

(***************************************************************************)
(* Staging: images are uploaded and analysed, the results reviewed and     *)
(* committed to Lectures the user creates.                                 *)
(***************************************************************************)
StagingNext ==
  \/ \E files \in FileInputs : HandleImagesChange(files)
  \/ HandleClearImages
  \/ AnalyzeImages
  \/ \E i \in 1..MaxImages, reply \in Replies : ExtractionReplied(i, reply)
  \/ \E q \in Ids(StagedQuestions) : HandleToggleStagedQuestion(q)
  \/ HandleSelectAllStaged
  \/ \E val \in Ids(subjects) : SelectSubject(val)
  \/ \E val \in Ids(lectureOptions) : SelectLecture(val)
  \/ HandleAddQuestionsToLecture

StagingInit ==
  /\ Loaded(<<SubjectC, OldSubject>>)
  /\ StageIdle
  /\ PdfIdle

StagingSpec == StagingInit /\ [][StagingNext]_vars

(***************************************************************************)
(* Export: the document generatePdf makes of a stored Library.             *)
(***************************************************************************)
ExportNext ==
  \/ HandleExportClick
  \/ ClosePdfModal
  \/ \E id \in Ids(AllLectures(subjects)) : TogglePdfLecture(id)
  \/ SelectAllForPdf
  \/ DeselectAllForPdf
  \/ \E textSize \in TextSizeInputs, showAnswers \in BOOLEAN : SetPdfOptions(textSize, showAnswers)
  \/ GeneratePdf

ExportSpec == LibraryInit /\ [][ExportNext]_vars

(***************************************************************************)
(* Export of a Library in which the name of a Lecture takes six lines at   *)
(* the smaller text size.                                                  *)
(***************************************************************************)
HeadingInit ==
  /\ Loaded(<<[SubjectA EXCEPT !.lectures[1].name = [k \in 1..56 |-> "a"]]>>)
  /\ StageIdle
  /\ PdfIdle

HeadingSpec == HeadingInit /\ [][ExportNext]_vars

(***************************************************************************)
(* Naming: Subjects and Lectures are created and renamed.                  *)
(***************************************************************************)
NamingNext ==
  \/ \E name \in NameInputs : AddSubject(name)
  \/ \E i \in 1..Len(subjects), name \in NameInputs : AddLecture(subjects[i].id, name)
  \/ \E i \in 1..Len(subjects), name \in NameInputs : HandleUpdateSubject(subjects[i].id, name)
  \/ \E i \in 1..Len(subjects), name \in NameInputs :
       \E k \in 1..Len(subjects[i].lectures) :
         HandleSaveLecture(subjects[i].id, subjects[i].lectures[k].id, name)

NamingSpec == LibraryInit /\ [][NamingNext]_vars

(***************************************************************************)
(* Staging next to deletion: the user stages the questions of one image,   *)
(* picks a target, and deletes Subjects in the library view in between.    *)
(* The delete dialog lies over the views while it is open.                 *)
(***************************************************************************)
RetainNext ==
  \/ ~isDeleteModalOpen /\ HandleImagesChange(<<"f1">>)
  \/ ~isDeleteModalOpen /\ AnalyzeImages
  \/ \E reply \in Replies : ExtractionReplied(1, reply)
  \/ \E q \in Ids(StagedQuestions) : ~isDeleteModalOpen /\ HandleToggleStagedQuestion(q)
  \/ \E val \in Ids(subjects) : ~isDeleteModalOpen /\ SelectSubject(val)
  \/ \E val \in Ids(lectureOptions) : ~isDeleteModalOpen /\ SelectLecture(val)
  \/ ~isDeleteModalOpen /\ HandleAddQuestionsToLecture
  \/ \E i \in 1..Len(subjects) : InitiateDeleteSubject(subjects[i].id)
  \/ \E typed \in BOOLEAN : ConfirmDelete(typed)
  \/ CancelDelete

RetainSpec == StagingInit /\ [][RetainNext]_vars

(***************************************************************************)
(* A session from mount, with an empty cache and an empty store, in which  *)
(* the user adds a Subject and works in the view that uploads and analyses *)
(* images: the handlers of that view are the ones that clear the error     *)
(* message.                                                                *)
(***************************************************************************)
SessionInit ==
  /\ Init
  /\ localStorage = NoItems
  /\ remote = Null

SessionNext ==
  \/ Mount
  \/ \E ok \in BOOLEAN : PatResponse(ok)
  \/ \E fail \in BOOLEAN : LoadGetReplied(fail)
  \/ LoadGotFile
  \/ LatchRelease
  \/ TimerFire
  \/ \E i \in 1..Len(cycles), fail \in BOOLEAN : CycleGetReplied(i, fail)
  \/ \E i \in 1..Len(cycles) : CycleGotFile(i)
  \/ \E i \in 1..Len(cycles), fail \in BOOLEAN : CyclePutReplied(i, fail)
  \/ \E i \in 1..Len(cycles) : CycleGotPut(i)
  \/ \E name \in NameInputs : AddSubject(name)
  \/ \E files \in FileInputs : HandleImagesChange(files)
  \/ HandleClearImages
  \/ AnalyzeImages
  \/ \E i \in 1..MaxImages, reply \in Replies : ExtractionReplied(i, reply)

SessionSpec == SessionInit /\ [][SessionNext]_vars

(***************************************************************************)
(* Vocabulary of the properties.                                           *)
(***************************************************************************)
Cycles == 1..Len(cycles)

\* a PUT was sent by cycle c
WriteIssued(c) == c.pc \in {"putSent", "putReplied"} \/ c.put.status # "none"

\* no debounce timer is pending and no callback is running
Quiescent == ~debounceTimer.armed /\ \A i \in Cycles : cycles[i].pc = "done"

\* this step sends a GET or a PUT of a save cycle
IssuesRequest ==
  \/ Len(cycles') > Len(cycles)
  \/ \E i \in Cycles : cycles[i].pc # "putSent" /\ cycles'[i].pc = "putSent"

\* this step ends a save cycle in the catch block
EndsInError ==
  \E i \in Cycles : cycles[i].pc # "done" /\ cycles'[i].pc = "done" /\ cycles'[i].outcome = "error"

\* the Library the store holds
RemoteLibrary == IF remote = Null THEN <<>> ELSE JsonParse(remote[1]).value

(***************************************************************************)
(* C1: while the initial-load latch is set, the debounce timer is never    *)
(* armed, no save cycle has started and no write has been sent, whatever   *)
(* was assigned to the Library (from the cache, from the remote, by the    *)
(* user).                                                                  *)
(***************************************************************************)
C1_NoSaveWhileLatched ==
  isInitialLoad =>
    /\ ~debounceTimer.armed
    /\ \A i \in Cycles : ~WriteIssued(cycles[i])
    /\ cycles = <<>>
    /\ saveStatus = "idle"

\* the load has replaced the Library from the remote and the latch is still set
C1_Witness ==
  /\ isInitialLoad
  /\ loadPc = "done"
  /\ pat = FetchedPat
  /\ ~isDataLoading
  /\ loadResp.status = "ok"
  /\ ~localDataLoaded
  /\ subjects = <<OldSubject>>

(***************************************************************************)
(* C2: every step that changes the Library after the load has finished,    *)
(* with a credential held, leaves the debounce armed with the new Library. *)
(* The code does not: a change made before the 500 ms latch timeout has    *)
(* run is skipped by the save effect.                                      *)
(***************************************************************************)
C2_ReadyChangeArmsDebounce ==
  [][(loadPc = "done" /\ pat # NoPat /\ subjects' # subjects)
       => (debounceTimer'.armed /\ debounceTimer'.snap = subjects')]_vars

(***************************************************************************)
(* C3: once two save cycles have run to their end, nothing is pending, the *)
(* save status is 'saved' and no error has been reported, the store holds  *)
(* the current Library.                                                    *)
(***************************************************************************)
C3_SavedMeansRemoteIsLatest ==
  (Len(cycles) >= 2 /\ Quiescent /\ saveStatus = "saved" /\ error = NoError)
    => (remote # Null /\ RemoteLibrary = subjects)

(***************************************************************************)
(* C4: a save cycle whose GET answered with the very text it is about to   *)
(* write ends as 'saved' and sends no PUT; the store is left untouched.    *)
(***************************************************************************)
C4_UnchangedContentNoWrite ==
  [][\A i \in Cycles :
       (/\ cycles[i].pc = "getReplied"
        /\ cycles'[i].pc # "getReplied"
        /\ cycles[i].get.status = "ok"
        /\ Atob(cycles[i].get.content) = Stringify(cycles[i].snap, TRUE))
       => (/\ cycles'[i].pc = "done"
           /\ cycles'[i].outcome = "saved"
           /\ ~WriteIssued(cycles'[i])
           /\ saveStatus' = "saved"
           /\ remote' = remote)]_vars

\* two cycles in a row found the content unchanged and finished without a write
C4_Witness ==
  /\ Len(cycles) = 2
  /\ \A i \in Cycles :
       cycles[i].pc = "done" /\ cycles[i].outcome = "saved" /\ ~WriteIssued(cycles[i])
  /\ saveStatus = "saved"

(***************************************************************************)
(* C5, as claimed: from a save cycle ending in error until the next        *)
(* Library change (which sets the status to 'saving') no GET or PUT is     *)
(* sent.                                                                   *)
(***************************************************************************)
C5_NoRequestAfterError ==
  [][saveStatus = "error" => ~IssuesRequest]_vars

(***************************************************************************)
(* C5, amended: the step that ends a cycle in error sends nothing and      *)
(* arms nothing; once no timer is pending and no other cycle is running,   *)
(* nothing is sent until the Library changes, and that change arms the     *)
(* debounce with the changed Library.                                      *)
(***************************************************************************)
C5_NoAutomaticRetry ==
  [][/\ EndsInError => (debounceTimer' = debounceTimer /\ ~IssuesRequest)
     /\ (Quiescent /\ saveStatus = "error") =>
          /\ ~IssuesRequest
          /\ subjects' # subjects =>
               (debounceTimer'.armed /\ debounceTimer'.snap = subjects')]_vars

\* a cycle ended in error, and a later Library change has armed the debounce again
C5_Witness ==
  /\ \E i \in Cycles : cycles[i].outcome = "error"
  /\ \A i \in Cycles : cycles[i].pc = "done"
  /\ error = SaveFailedMsg
  /\ saveStatus = "saving"
  /\ debounceTimer.armed
  /\ debounceTimer.snap = subjects

(***************************************************************************)
(* C6: when the load's GET answers with a file whose sha differs from the  *)
(* cached one and whose content is an array, the load ends with the        *)
(* Library equal to the array in the store, and the cache holding that     *)
(* array and the sha of the stored file.                                   *)
(***************************************************************************)
C6_LoadReplacesFromRemote ==
  [][(/\ loadPc = "fileReplied"
      /\ loadPc' # "fileReplied"
      /\ loadResp.status = "ok"
      /\ loadResp.sha # localStorage.sha
      /\ remote # Null
      /\ JsonParse(remote[1]).isArray)
     => (/\ loadPc' = "done"
         /\ ~isDataLoading'
         /\ subjects' = RemoteLibrary
         /\ localStorage'.subjects # Null
         /\ JsonParse(localStorage'.subjects[1]).isArray
         /\ JsonParse(localStorage'.subjects[1]).value = RemoteLibrary
         /\ localStorage'.sha = Some(Sha(remote[1])))]_vars

\* started without a cache; the load has filled Library and cache from the store
C6_Witness ==
  /\ loadPc = "done"
  /\ ~localDataLoaded
  /\ cycles = <<>>
  /\ remote # Null
  /\ subjects = <<OldSubject>>
  /\ RemoteLibrary = subjects
  /\ localStorage.sha = Some(Sha(remote[1]))
  /\ localStorage.subjects = Some(Stringify(subjects, FALSE))

(***************************************************************************)
(* C7: the cached Library is shown at mount; when the load's GET fails,    *)
(* the load ends, with a cache the Library is left as it is and no error   *)
(* is shown, without a cache the load error is shown and the Library is    *)
(* empty.                                                                  *)
(***************************************************************************)
C7_ReadFailureFallsBackToCache ==
  [][/\ (loadPc = "unmounted" /\ loadPc' # "unmounted" /\ localStorage.subjects # Null)
          => subjects' = JsonParse(localStorage.subjects[1]).value
     /\ (loadPc = "fileReplied" /\ loadPc' # "fileReplied" /\ loadResp.status = "fail")
          => /\ loadPc' = "done"
             /\ ~isDataLoading'
             /\ IF localStorage.subjects # Null
                THEN subjects' = subjects /\ error' = NoError
                ELSE subjects' = <<>> /\ error' = LoadFailedMsg]_vars

\* the GET failed, the cached Library is still shown and no error is
C7_Witness ==
  /\ loadPc = "done"
  /\ loadResp.status = "fail"
  /\ localStorage.subjects # Null
  /\ subjects = <<OldSubject>>
  /\ subjects = JsonParse(localStorage.subjects[1]).value
  /\ error = NoError
  /\ ~isDataLoading

(***************************************************************************)
(* C8: when the load's GET answers 404, the load ends with an empty        *)
(* Library, both cache entries absent and no error shown.                  *)
(***************************************************************************)
C8_NotFoundClearsCache ==
  [][(loadPc = "fileReplied" /\ loadPc' # "fileReplied" /\ loadResp.status = "notfound")
       => (/\ loadPc' = "done"
           /\ ~isDataLoading'
           /\ subjects' = <<>>
           /\ localStorage' = NoItems
           /\ error' = NoError)]_vars

\* a cached Library was shown, the file was missing, Library and cache are now empty
C8_Witness ==
  /\ loadPc = "done"
  /\ loadResp.status = "notfound"
  /\ localDataLoaded
  /\ subjects = <<>>
  /\ localStorage = NoItems
  /\ error = NoError

(***************************************************************************)
(* C9: when the token endpoint fails, the load ends with the load error    *)
(* shown and an empty Library.  With a cached Library the code shows no    *)
(* error and keeps the cached Library.                                     *)
(***************************************************************************)
C9_NoCredentialIsFatal ==
  [][(loadPc = "fetchPat" /\ loadPc' = "done")
       => (error' = LoadFailedMsg /\ subjects' = <<>>)]_vars

(***************************************************************************)
(* C10: a cycle whose PUT was rejected for a stale sha ends with an        *)
(* outcome different from the one of a transport failure.  The code        *)
(* throws the same Error for both.                                         *)
(***************************************************************************)
C10_ConflictIsDistinct ==
  \A i \in Cycles :
    (cycles[i].pc = "done" /\ cycles[i].put.status = "conflict")
      => cycles[i].thrown # Thrown("fail")

(***************************************************************************)
(* Vocabulary of the properties of the views.                              *)
(***************************************************************************)
\* a step the user takes in the views of renderContent
UserStep ==
  \/ \E name \in NameInputs : AddSubject(name)
  \/ \E files \in FileInputs : HandleImagesChange(files)
  \/ HandleClearImages
  \/ AnalyzeImages

(***************************************************************************)
(* C11: whenever the message of a failed save is shown, the user can take  *)
(* a step that clears it.  The code offers none: renderContent shows the   *)
(* message in place of every view, and the only handlers that clear it     *)
(* belong to a view.                                                       *)
(***************************************************************************)
C11_SaveErrorIsDismissable ==
  error = SaveFailedMsg => ENABLED (UserStep /\ error' = NoError)

(***************************************************************************)
(* Vocabulary of the properties of the Library Store.                      *)
(***************************************************************************)
\* what may be dragged, and what it may be dropped on in Subject i
Draggable == Ids(AllLectures(subjects)) \cup {NoId, AbsentId}
DropTargets(i) == Ids(subjects[i].lectures) \cup {AbsentId}

\* how often x occurs in seq
Count(seq, x) == Cardinality({k \in 1..Len(seq) : seq[k] = x})

\* seq2 is seq1 in another order
IsPermutation(seq1, seq2) ==
  /\ Len(seq1) = Len(seq2)
  /\ \A k \in 1..Len(seq1) : Count(seq2, seq1[k]) = Count(seq1, seq1[k])

(***************************************************************************)
(* C12: a drop of a Lecture on another Lecture of the same Subject, both   *)
(* present, leaves the dragged one immediately before the one it was       *)
(* dropped on; a drop with an absent id or on itself changes nothing.      *)
(* The code puts a Lecture dragged forwards immediately after the target.  *)
(***************************************************************************)
C12_MovedSitsBeforeTarget ==
  [][\A i \in 1..Len(subjects) : \A d \in Draggable, t \in DropTargets(i) :
       HandleDrop(subjects[i].id, d, t) =>
         IF d # t /\ d \in Ids(subjects[i].lectures) /\ t \in Ids(subjects[i].lectures)
         THEN FindIndex(subjects'[i].lectures, d) + 1 = FindIndex(subjects'[i].lectures, t)
         ELSE subjects' = subjects]_vars

(***************************************************************************)
(* C13: a drop permutes the Lectures of the Subject it is made in: the     *)
(* same Lectures, each with its name and questions, as often as before;    *)
(* the Subject keeps id and name, no other Subject changes, and a drop of  *)
(* a Lecture on itself leaves the Library as it was.                       *)
(***************************************************************************)
C13_ReorderIsPermutation ==
  [][\A i \in 1..Len(subjects) : \A d \in Draggable, t \in DropTargets(i) :
       HandleDrop(subjects[i].id, d, t) =>
         /\ Len(subjects') = Len(subjects)
         /\ \A j \in 1..Len(subjects) :
              /\ subjects'[j].id = subjects[j].id
              /\ subjects'[j].name = subjects[j].name
              /\ IsPermutation(subjects[j].lectures, subjects'[j].lectures)
              /\ subjects[j].id # subjects[i].id => subjects'[j] = subjects[j]
         /\ d = t => subjects' = subjects]_vars

\* the third Lecture of the first Subject was dropped on the first one
C13_Witness ==
  /\ Len(subjects) = 2
  /\ subjects[1] = [SubjectA EXCEPT !.lectures = <<SubjectA.lectures[3], SubjectA.lectures[1],
                                                   SubjectA.lectures[2]>>]
  /\ subjects[2] = SubjectB
  /\ debounceTimer.armed
  /\ debounceTimer.snap = subjects

\* the ids of a sequence of objects, in order
IdSeq(seq) == [k \in 1..Len(seq) |-> seq[k].id]

\* every id the Library holds: of its Subjects, Lectures and Questions
LibraryIds(s) == IdSeq(s) \o IdSeq(AllLectures(s)) \o IdSeq(AllQuestions(AllLectures(s)))

\* the Library was built in this session, from an empty one
BuiltFromEmpty == \A i \in 1..Len(subjects) : subjects[i].id[2] >= 1

(***************************************************************************)
(* C14: in a Library built from an empty one, the ids of all Subjects,     *)
(* Lectures and Questions are pairwise distinct.  The code names a Lecture *)
(* by the clock alone: two Lectures added at the same reading of the clock *)
(* carry the same id.                                                      *)
(***************************************************************************)
C14_IdsAreDistinct ==
  BuiltFromEmpty =>
    \A a, b \in 1..Len(LibraryIds(subjects)) :
      a # b => LibraryIds(subjects)[a] # LibraryIds(subjects)[b]

(***************************************************************************)
(* Vocabulary of the properties of the staging area.                       *)
(***************************************************************************)
\* the selects name a Subject of the Library and a Lecture of it
TargetExists ==
  \E j \in 1..Len(subjects) :
    /\ subjects[j].id = selectedSubjectId
    /\ selectedLectureId \in Ids(subjects[j].lectures)

\* Lecture k of Subject j is the one the selects name
IsTarget(j, k) ==
  subjects[j].id = selectedSubjectId /\ subjects[j].lectures[k].id = selectedLectureId

\* q without its id
Content(q) == [f \in DOMAIN q \ {"id"} |-> q[f]]

(***************************************************************************)
(* C15: a commit whose selects name a Subject and a Lecture of the Library *)
(* appends to that Lecture the selected staged questions, in the order of  *)
(* the staging area (image by image, question by question), each with its  *)
(* content and an id that neither the Library nor the staging area holds   *)
(* and that no other appended question gets; the questions the Lecture had *)
(* stay in front in their order, every other Lecture and every Subject's   *)
(* id and name are as before.                                              *)
(***************************************************************************)
C15_CommitAppendsSelected ==
  [][(HandleAddQuestionsToLecture /\ TargetExists) =>
       LET toAdd == SelectSeq(StagedQuestions, LAMBDA q : q.id \in selectedStagedIds)
           n == Len(toAdd)
       IN /\ Len(subjects') = Len(subjects)
          /\ \A j \in 1..Len(subjects) :
               /\ subjects'[j].id = subjects[j].id
               /\ subjects'[j].name = subjects[j].name
               /\ Len(subjects'[j].lectures) = Len(subjects[j].lectures)
               /\ \A k \in 1..Len(subjects[j].lectures) :
                    LET before == subjects[j].lectures[k]
                        after == subjects'[j].lectures[k]
                    IN IF IsTarget(j, k)
                       THEN /\ after.id = before.id
                            /\ after.name = before.name
                            /\ Len(after.questions) = Len(before.questions) + n
                            /\ SubSeq(after.questions, 1, Len(before.questions)) = before.questions
                            /\ \A m \in 1..n :
                                 LET added == after.questions[Len(before.questions) + m]
                                 IN /\ Content(added) = Content(toAdd[m])
                                    /\ added.id \notin Ids(AllQuestions(AllLectures(subjects)))
                                    /\ added.id \notin Ids(StagedQuestions)
                                    /\ \A m2 \in 1..n :
                                         m2 # m =>
                                           added.id # after.questions[Len(before.questions) + m2].id
                       ELSE after = before]_vars

\* both questions of the first image were committed to a Lecture that held one
C15_Witness ==
  /\ Len(subjects) = 2
  /\ Len(subjects[1].lectures[1].questions) = 3
  /\ subjects[1].lectures[1].questions[1] = OldQuestion(-5)
  /\ Content(subjects[1].lectures[1].questions[2]) = Content(ToQuestion(RawMcq, 1, 0, 0)[1])
  /\ Content(subjects[1].lectures[1].questions[3]) = Content(ToQuestion(RawShort, 1, 0, 1)[1])
  /\ subjects[1].lectures[2] = SubjectC.lectures[2]
  /\ subjects[2] = OldSubject
  /\ selectedStagedIds = {}

(***************************************************************************)
(* C16: every multiple-choice question in the Library has at least one     *)
(* option.  The code stages an answer of the service that carries no       *)
(* options as a question with none, and commit appends it as it is.        *)
(***************************************************************************)
C16_CommittedMcqHasOptions ==
  \A k \in 1..Len(AllQuestions(AllLectures(subjects))) :
    LET q == AllQuestions(AllLectures(subjects))[k]
    IN q.type = "mcq" => Len(q.options) > 0

(***************************************************************************)
(* C17: when the call for image i of a batch of N settles, its result      *)
(* carries the URL of image i and questions numbered for image i; a failed *)
(* call gives an error and no questions; the results of the other images   *)
(* are left as they were.  Nothing is staged before the last call has      *)
(* settled; then the staging area holds the N results, result j at         *)
(* position j, in whatever order the calls settled.                        *)
(***************************************************************************)
C17_ResultsFollowImageOrder ==
  [][\A i \in 1..MaxImages, reply \in Replies :
       ExtractionReplied(i, reply) =>
         LET n == Len(batch.settled)
             done == ~batch'.active
             mine == IF done THEN extractionResults'[i] ELSE batch'.settled[i][1]
         IN /\ mine.imageUrl = batch.imageUrls[i]
            /\ \A k \in 1..Len(mine.questions) : mine.questions[k].id[3] = i - 1
            /\ reply.status = "fail" => (mine.error # Null /\ mine.questions = <<>>)
            /\ \A j \in (1..n) \ {i} :
                 IF done
                 THEN batch.settled[j] # Null /\ extractionResults'[j] = batch.settled[j][1]
                 ELSE batch'.settled[j] = batch.settled[j]
            /\ IF done
               THEN Len(extractionResults') = n
               ELSE extractionResults' = extractionResults]_vars

\* two images were analysed; the first call failed, the second gave two questions
C17_Witness ==
  /\ ~isLoading
  /\ ~batch.active
  /\ Len(extractionResults) = 2
  /\ extractionResults[1] = [imageUrl |-> imageUrls[1], questions |-> <<>>,
                             error |-> ExtractionFailed(0)]
  /\ extractionResults[2].imageUrl = imageUrls[2]
  /\ extractionResults[2].error = Null
  /\ IdSeq(extractionResults[2].questions) = << <<"ext", 1, 1, 0>>, <<"ext", 1, 1, 1>> >>

(***************************************************************************)
(* C18: an answer of the service whose text is not JSON, or is JSON but    *)
(* not an array, gives that image no questions and no error; an image has  *)
(* an error only when its call failed.  The code parses inside the try     *)
(* block: a text that is not JSON ends in the catch and gives the error.   *)
(***************************************************************************)
C18_UnparsableIsEmptyNotError ==
  [][\A i \in 1..MaxImages, reply \in Replies :
       ExtractionReplied(i, reply) =>
         LET mine == IF batch'.active THEN batch'.settled[i][1] ELSE extractionResults'[i]
         IN /\ (reply.status = "ok" /\ ~JsonParse(reply.text).isArray)
                 => (mine.questions = <<>> /\ mine.error = Null)
            /\ mine.error # Null => reply.status = "fail"]_vars

(***************************************************************************)
(* What a saved document shows.                                            *)
(***************************************************************************)
RECURSIVE Flatten(_)
\* the items of all pages, in page order
Flatten(pages) == IF pages = <<>> THEN <<>> ELSE Head(pages) \o Flatten(Tail(pages))

\* the rows of the table of contents as drawn: indentation gives the level
TocDrawn(pages) ==
  LET titles == SelectSeq(Flatten(pages), LAMBDA item : item.call = "tocTitle")
  IN [k \in 1..Len(titles) |->
        [level |-> IF titles[k].x = margin THEN "subject" ELSE "lecture",
         title |-> titles[k].text[1]]]

RECURSIVE TocExpected(_, _)
\* Library order: each Subject with a selected Lecture, then its selected Lectures
TocExpected(subs, selected) ==
  IF subs = <<>> THEN <<>>
  ELSE LET s == Head(subs)
           lecs == SelectSeq(s.lectures, LAMBDA lec : lec.id \in selected)
           rows == IF lecs = <<>> THEN <<>>
                   ELSE <<[level |-> "subject", title |-> s.name]>>
                        \o [k \in 1..Len(lecs) |-> [level |-> "lecture", title |-> lecs[k].name]]
       IN rows \o TocExpected(Tail(subs), selected)

ContentCalls == {"subject", "lecture", "question", "option", "answer"}

\* the pages that carry content of the Library
ContentPages(pages) ==
  {i \in 1..Len(pages) : \E k \in 1..Len(pages[i]) : pages[i][k].call \in ContentCalls}

FootersOn(page) == SelectSeq(page, LAMBDA item : item.call = "footer")

\* 'Page i of n'
FooterText(i, n) ==
  <<"P", "a", "g", "e", "sp">> \o String(i) \o <<"sp", "o", "f", "sp">> \o String(n)

(***************************************************************************)
(* C19: the table of contents of an exported document has one subject row  *)
(* for each Subject with a selected Lecture and one lecture row for each   *)
(* selected Lecture, in Library order, each subject row directly followed  *)
(* by the rows of its Lectures.                                            *)
(***************************************************************************)
C19_TocFollowsLibraryOrder ==
  [][GeneratePdf => TocDrawn(savedPdf'[1]) = TocExpected(subjects, selectedPdfLectures)]_vars

\* a saved document with two subject rows, and a Subject with a Lecture left out
C19_Witness ==
  /\ savedPdf # Null
  /\ LET rows == TocDrawn(savedPdf[1])
     IN /\ Len(rows) = 5
        /\ rows[1].level = "subject" /\ rows[2].level = "lecture"
        /\ rows[3].level = "lecture" /\ rows[4].level = "subject"
        /\ rows[5].level = "lecture"

(***************************************************************************)
(* C20: with N the number of pages the content pass produced, pages        *)
(* 2 .. N+1 of an exported document are the content pages and each carries *)
(* exactly one footer, 'Page i of N' for the i-th of them; the first page  *)
(* (the table of contents) and any page after N+1 carry none.              *)
(***************************************************************************)
C20_ContentPagesAreNumbered ==
  [][GeneratePdf =>
       LET pages == savedPdf'[1]
           n == Cardinality(ContentPages(pages))
       IN /\ n = Len(ContentPass(NewDoc, subjects, selectedPdfLectures, pdfTextSize * 10,
                                  pdfShowAnswers).pages)
          /\ ContentPages(pages) = 2..(n + 1)
          /\ \A i \in 1..Len(pages) :
               IF i \in 2..(n + 1)
               THEN /\ Len(FootersOn(pages[i])) = 1
                    /\ FootersOn(pages[i])[1].text = <<FooterText(i - 1, n)>>
               ELSE FootersOn(pages[i]) = <<>>]_vars

\* a saved document with two content pages and a table of contents of two pages
C20_Witness ==
  /\ savedPdf # Null
  /\ Cardinality(ContentPages(savedPdf[1])) = 2
  /\ Len(savedPdf[1]) = 4
  /\ FootersOn(savedPdf[1][3]) # <<>>

(***************************************************************************)
(* C21: no retained selection (the target Subject and Lecture of the       *)
(* staging area, the Lectures selected for export) names a Subject or a    *)
(* Lecture that is no longer in the Library.                               *)
(***************************************************************************)
C21_NoDanglingSelection ==
  /\ selectedSubjectId # NoId => selectedSubjectId \in Ids(subjects)
  /\ selectedLectureId # NoId => selectedLectureId \in Ids(AllLectures(subjects))
  /\ selectedPdfLectures \subseteq Ids(AllLectures(subjects))

(***************************************************************************)
(* C26: every question a commit takes out of the staging area is in the    *)
(* Library after the commit, as a question the Library did not hold        *)
(* before, also when the chosen Subject or Lecture is no longer there.     *)
(***************************************************************************)
C26_CommitLosesNothing ==
  [][HandleAddQuestionsToLecture =>
       \A j \in 1..Len(StagedQuestions) :
         StagedQuestions[j].id \notin Ids(StagedQuestions')
           => LET after == AllQuestions(AllLectures(subjects'))
              IN \E k \in 1..Len(after) :
                   /\ Content(after[k]) = Content(StagedQuestions[j])
                   /\ after[k].id \notin Ids(AllQuestions(AllLectures(subjects)))]_vars

(***************************************************************************)
(* C22: the PUT of a save cycle carries the sha that the GET of the same   *)
(* cycle answered, and no sha when that GET found no file; the sha of the  *)
(* cache and the sha the load saw play no part.                            *)
(***************************************************************************)
C22_WriteCarriesFreshSha ==
  [][\A i \in Cycles :
       (cycles[i].pc # "putSent" /\ cycles'[i].pc = "putSent")
         => /\ cycles[i].pc = "getReplied"
            /\ cycles'[i].get = cycles[i].get
            /\ cycles[i].get.status = "ok" => cycles'[i].putSha = cycles[i].get.sha
            /\ cycles[i].get.status = "notfound" => cycles'[i].putSha = Null]_vars

\* a PUT is out with the sha of a file that neither the cache nor the load has seen
C22_Witness ==
  \E i \in Cycles :
    /\ cycles[i].pc = "putSent"
    /\ cycles[i].putSha # Null
    /\ cycles[i].putSha = cycles[i].get.sha
    /\ cycles[i].putSha # localStorage.sha
    /\ cycles[i].putSha # loadResp.sha

C24_CacheMirrorsOneVersion ==
  [][LET wrote(i) == /\ cycles[i].pc = "putReplied"
                     /\ cycles'[i].pc = "done"
                     /\ cycles[i].put.status = "ok"
         read == /\ loadPc = "fileReplied"
                 /\ loadPc' = "done"
                 /\ loadResp.status = "ok"
                 /\ loadResp.sha # localStorage.sha
                 /\ JsonParse(Atob(loadResp.content)).isArray
         missing == /\ loadPc = "fileReplied"
                    /\ loadPc' = "done"
                    /\ loadResp.status = "notfound"
                    /\ localDataLoaded
     IN /\ \A i \in Cycles :
             wrote(i) => /\ localStorage'.subjects = Some(Atob(cycles[i].putContent))
                         /\ localStorage'.sha = cycles[i].put.sha
                         /\ localStorage'.sha = Some(Sha(Atob(cycles[i].putContent)))
        /\ read => /\ localStorage'.subjects # Null
                   /\ JsonParse(localStorage'.subjects[1]).value
                        = JsonParse(Atob(loadResp.content)).value
                   /\ subjects' = JsonParse(Atob(loadResp.content)).value
                   /\ localStorage'.sha = loadResp.sha
        /\ missing => localStorage' = NoItems
        /\ localStorage' # localStorage => (read \/ missing \/ \E i \in Cycles : wrote(i))]_vars

\* the load filled the cache from the store, then a save cycle wrote a changed
\* Library and the cache holds the text and the sha of that write
C24_Witness ==
  /\ loadResp.status = "ok"
  /\ \E i \in Cycles : cycles[i].pc = "done" /\ cycles[i].put.status = "ok"
  /\ \A i \in Cycles : cycles[i].pc = "done"
  /\ Len(cycles) = 1
  /\ remote # Null
  /\ localStorage.subjects = remote
  /\ localStorage.sha = Some(Sha(remote[1]))
  /\ RemoteLibrary # <<OldSubject>>

(***************************************************************************)
(* C25: when the cached Library was shown at mount, a Subject the user     *)
(* adds while syncWithRemote is still under way is in the Library when     *)
(* syncWithRemote has ended, whatever the store answered.                  *)
(***************************************************************************)
C25_EditSurvivesSync ==
  [][(/\ loadPc \in {"fetchPat", "getFile", "fileReplied"}
      /\ loadPc' = "done"
      /\ localDataLoaded
      /\ localStorage.subjects # Null)
     => \A i \in 1..Len(subjects) :
          subjects[i].id \notin Ids(JsonParse(localStorage.subjects[1]).value)
            => \E k \in 1..Len(subjects') : subjects'[k] = subjects[i]]_vars

(***************************************************************************)
(* C27: every result in the staging area is the result of one of the       *)
(* images now uploaded: a batch whose images were replaced or cleared      *)
(* while it was analysed leaves nothing in the staging area.               *)
(***************************************************************************)
C27_ResultsBelongToCurrentBatch ==
  \A k \in 1..Len(extractionResults) :
    \E j \in 1..Len(imageUrls) : extractionResults[k].imageUrl = imageUrls[j]

RECURSIVE HeadingPagesFrom(_, _)
\* for each Subject and Lecture heading, in page order, the page it is drawn on
HeadingPagesFrom(pages, i) ==
  IF i > Len(pages) THEN <<>>
  ELSE LET heads == SelectSeq(pages[i], LAMBDA item : item.call \in {"subject", "lecture"})
       IN [k \in 1..Len(heads) |-> i] \o HeadingPagesFrom(pages, i + 1)

(***************************************************************************)
(* C28: the page number of each row of the table of contents is the number *)
(* i of the footer 'Page i of N' on the page where the heading of that     *)
(* Subject or Lecture is drawn, also when the heading's own text block     *)
(* makes addWrappedText start a new page.                                  *)
(***************************************************************************)
C28_TocPageIsHeadingPage ==
  [][GeneratePdf =>
       LET pages == savedPdf'[1]
           n == Cardinality(ContentPages(pages))
           heads == HeadingPagesFrom(pages, 1)
           nums == SelectSeq(Flatten(pages), LAMBDA item : item.call = "tocPage")
       IN /\ Len(nums) = Len(heads)
          /\ \A k \in 1..Len(heads) :
               /\ FootersOn(pages[heads[k]]) # <<>>
               /\ FootersOn(pages[heads[k]])[1].text = <<FooterText(heads[k] - 1, n)>>
               /\ nums[k].text = <<String(heads[k] - 1)>>]_vars

(***************************************************************************)
(* C29: every row of the table of contents is drawn on a page before the   *)
(* first content page, also when the rows take more than one page, and     *)
(* the content pages follow each other without a page in between.          *)
(***************************************************************************)
C29_TocPrecedesContent ==
  [][GeneratePdf =>
       LET pages == savedPdf'[1]
           content == ContentPages(pages)
       IN /\ \A i \in 1..Len(pages) :
               (\E k \in 1..Len(pages[i]) : pages[i][k].call = "tocTitle")
                 => \A j \in content : i < j
          /\ \A i, j \in content : \A m \in i..j : m \in content]_vars

(***************************************************************************)
(* C30: every Subject and every Lecture of the Library has a name that is  *)
(* not empty and has no space at either end.                               *)
(***************************************************************************)
C30_NamesAreTrimmedNonEmpty ==
  /\ \A i \in 1..Len(subjects) : subjects[i].name # <<>> /\ Trim(subjects[i].name) = subjects[i].name
  /\ \A k \in 1..Len(AllLectures(subjects)) :
       LET name == AllLectures(subjects)[k].name
       IN name # <<>> /\ Trim(name) = name

====
